---- MODULE Spec2Model ----
(***************************************************************************)
(* Model of scripts/refresh-cookies.js: the YouTube cookie refresh script. *)
(* One run of the script loads config/accounts.json, tries each enabled    *)
(* account up to maxRetriesPerAccount times with attemptLogin, and on the  *)
(* first success calls saveCookies, which backs up cookies.json, prunes    *)
(* the backups and overwrites cookies.json.  The directory (cookies.json   *)
(* and cookies.backup_*.json) outlives the runs; the model chains runs.    *)
(***************************************************************************)
EXTENDS Integers, Sequences, FiniteSets, TLC

VARIABLES
  pc,                \* position of the script: "idle" when no process runs
  config,            \* the parsed, filtered configuration of the current run
  i,                 \* index of the for-loop over accounts (1-based)
  attempt,           \* attempt number of the inner for-loop
  successfulCookies, \* refreshCookies' successfulCookies
  successAccount,    \* refreshCookies' successAccount
  cookieFile,        \* content of cookies.json, or NoFile
  backups,           \* the cookies.backup_<ts>.json files: set of [ts, data]
  now,               \* the wall clock (Date.now()), in whole ticks
  runs,              \* number of runs started so far
  exitCode,          \* exit status of the last finished run (-1: none yet)
  outcome,           \* how the last finished run ended
  attempts,          \* per account: attemptLogin calls made in this run
  last,              \* the last attemptLogin call: account, attempt, class
  saveCalled,        \* saveCookies has been called in this run
  prior,             \* cookies.json and the backups when this run started
  history,           \* the contents cookies.json held before its current one
  persisted,         \* saveCookies calls that returned
  failures,          \* saveCookies calls that threw
  observed,          \* what an external reader of cookies.json last read
  browser,           \* the puppeteer browser of the run: none, launched, closed
  accountsJson,      \* config/accounts.json as the run found it
  harvest,           \* the cookie array page.cookies() returned that is in use
  verdict,           \* what validateCookies returned for harvest
  conversions,       \* the convertCookies calls on harvest: clock and result
  pages,             \* pages attemptLogin has opened and not closed
  context,           \* the cookies of the browser's default context, with who set them
  current,           \* the attemptLogin call under way or last made: what it met
  shots,             \* the screenshots takeScreenshot was asked for in that call
  result,            \* what the try block of that call returned or threw
  report,            \* the account and the count the success report names
  writers,           \* the runs of the script that are in saveCookies at the same time
  quota              \* one user's stored profile and the /convert requests under way

vars == <<pc, config, i, attempt, successfulCookies, successAccount, cookieFile,
          backups, now, runs, exitCode, outcome, attempts, last, saveCalled, prior,
          history, persisted, failures, observed, browser, accountsJson, harvest,
          verdict, conversions, pages, context, current, shots, result, report,
          writers, quota>>

----------------------------------------------------------------------------
(* Bounds of the model *)
MaxAccounts == 2       \* accounts listed in config/accounts.json
MaxRetriesCfg == 2     \* largest configured rotation.maxRetries
MaxPersists == 7       \* saveCookies calls that are chained
MaxFailures == 1       \* saveCookies calls that throw
MaxPartial == 1        \* records of the longest partial text of cookies.json
Epoch == 10            \* clock value before the first run (two digits wide)

(* Program constants *)
DefaultMaxRetries == 3
KeepBackups == 5
YearSeconds == 31536000

ESSENTIAL_COOKIES == <<"SID", "HSID", "SSID", "APISID", "SAPISID", "LOGIN_INFO">>

Null == [isNull |-> TRUE]                         \* JavaScript null
Arr(s) == [isNull |-> FALSE, items |-> s]         \* a JavaScript array
Truthy(v) == ~v.isNull                            \* arrays are truthy, null is not
NoFile == [exists |-> FALSE]
NoValue == 0           \* a falsy rotation.maxRetries (absent, null or 0)
Undefined == "<undefined>"                        \* a property that is not set
Falsy(str) == str \in {Undefined, ""}              \* the strings || replaces

Range(s) == {s[k] : k \in 1..Len(s)}

----------------------------------------------------------------------------
(* Cookies *)

\* a raw cookie as page.cookies() returns it (the fields the script reads)
RawCookie(name, value, domain, expires) ==
  [name |-> name, value |-> value, domain |-> domain, expires |-> expires,
   httpOnly |-> TRUE, path |-> "/", sameSite |-> Undefined, secure |-> TRUE,
   session |-> expires <= 0]

\* String.prototype.startsWith('.') on the domains of the model
StartsWithDot(domain) == domain \in {".youtube.com", ".google.com", ".example.org"}

\* the filter over c.domain.includes(...) of attemptLogin
RelevantDomain(domain) ==
  domain \in {".youtube.com", "www.youtube.com", ".google.com", "accounts.google.com"}

\* attemptLogin without its filter on the domains
FilterCookiesAll(cookies) == cookies

FilterCookies(cookies) == SelectSeq(cookies, LAMBDA c : RelevantDomain(c.domain))

\* validateCookies without its check of the values
ValidateCookiesNoEmptyCheck(cookies) ==
  LET cookieNames == {cookies[k].name : k \in 1..Len(cookies)}
      missingCookies == SelectSeq(ESSENTIAL_COOKIES, LAMBDA n : n \notin cookieNames)
  IN  Len(missingCookies) = 0

ValidateCookies(cookies) ==
  LET cookieNames == {cookies[k].name : k \in 1..Len(cookies)}
      missingCookies == SelectSeq(ESSENTIAL_COOKIES, LAMBDA n : n \notin cookieNames)
      emptyCookies == SelectSeq(cookies,
                        LAMBDA c : c.name \in Range(ESSENTIAL_COOKIES) /\ c.value = "")
  IN  IF Len(missingCookies) > 0 THEN FALSE
      ELSE IF Len(emptyCookies) > 0 THEN FALSE
      ELSE TRUE

\* convertCookies with hostOnly set for the domains that start with a dot
ConvertCookieHostOnlyOfDotted(cookie, t) ==
  [domain |-> cookie.domain,
   expirationDate |-> IF cookie.expires > 0 THEN cookie.expires ELSE t + YearSeconds,
   hostOnly |-> StartsWithDot(cookie.domain),
   httpOnly |-> cookie.httpOnly,
   name |-> cookie.name,
   path |-> IF Falsy(cookie.path) THEN "/" ELSE cookie.path,
   sameSite |-> IF Falsy(cookie.sameSite) THEN "unspecified" ELSE cookie.sameSite,
   secure |-> cookie.secure,
   session |-> cookie.session,
   storeId |-> "0",
   value |-> cookie.value]

\* convertCookies with the expiry always taken from the clock
ConvertCookieExpiryFromClock(cookie, t) ==
  [domain |-> cookie.domain,
   expirationDate |-> t + YearSeconds,
   hostOnly |-> ~StartsWithDot(cookie.domain),
   httpOnly |-> cookie.httpOnly,
   name |-> cookie.name,
   path |-> IF Falsy(cookie.path) THEN "/" ELSE cookie.path,
   sameSite |-> IF Falsy(cookie.sameSite) THEN "unspecified" ELSE cookie.sameSite,
   secure |-> cookie.secure,
   session |-> cookie.session,
   storeId |-> "0",
   value |-> cookie.value]

\* convertCookies that copies expires as it is
ConvertCookieExpiryAsIs(cookie, t) ==
  [domain |-> cookie.domain,
   expirationDate |-> cookie.expires,
   hostOnly |-> ~StartsWithDot(cookie.domain),
   httpOnly |-> cookie.httpOnly,
   name |-> cookie.name,
   path |-> IF Falsy(cookie.path) THEN "/" ELSE cookie.path,
   sameSite |-> IF Falsy(cookie.sameSite) THEN "unspecified" ELSE cookie.sameSite,
   secure |-> cookie.secure,
   session |-> cookie.session,
   storeId |-> "0",
   value |-> cookie.value]

\* convertCookies without the default for sameSite
ConvertCookieSameSiteAsIs(cookie, t) ==
  [domain |-> cookie.domain,
   expirationDate |-> IF cookie.expires > 0 THEN cookie.expires ELSE t + YearSeconds,
   hostOnly |-> ~StartsWithDot(cookie.domain),
   httpOnly |-> cookie.httpOnly,
   name |-> cookie.name,
   path |-> IF Falsy(cookie.path) THEN "/" ELSE cookie.path,
   sameSite |-> cookie.sameSite,
   secure |-> cookie.secure,
   session |-> cookie.session,
   storeId |-> "0",
   value |-> cookie.value]

ConvertCookie(cookie, t) ==
  [domain |-> cookie.domain,
   expirationDate |-> IF cookie.expires > 0 THEN cookie.expires ELSE t + YearSeconds,
   hostOnly |-> ~StartsWithDot(cookie.domain),
   httpOnly |-> cookie.httpOnly,
   name |-> cookie.name,
   path |-> IF Falsy(cookie.path) THEN "/" ELSE cookie.path,
   sameSite |-> IF Falsy(cookie.sameSite) THEN "unspecified" ELSE cookie.sameSite,
   secure |-> cookie.secure,
   session |-> cookie.session,
   storeId |-> "0",
   value |-> cookie.value]

ConvertCookies(puppeteerCookies, t) ==
  [k \in 1..Len(puppeteerCookies) |-> ConvertCookie(puppeteerCookies[k], t)]

----------------------------------------------------------------------------
(* What one login attempt meets: the inputs of attemptLogin *)

Markers == {"captcha", "notFound", "verifyIdentity", "verifyIt",
            "twoStep", "confirmIdentity", "wrongPassword"}

MaxMarkers == 1        \* markers that one page shows together

PageContents == {S \in SUBSET Markers : Cardinality(S) <= MaxMarkers}

\* the token a login at clock t issues as cookie value
Token(t) == ToString(t)

BaseJar(t) ==
  [k \in 1..Len(ESSENTIAL_COOKIES) |->
     RawCookie(ESSENTIAL_COOKIES[k], Token(t),
               IF k % 2 = 1 THEN ".youtube.com" ELSE ".google.com",
               IF k % 3 = 0 THEN -1 ELSE t + 100)]

Without(jar, k) == [j \in 1..(Len(jar) - 1) |-> IF j < k THEN jar[j] ELSE jar[j + 1]]

\* the cookie jars a page can hold after a login flow at clock t
Jars(t) ==
  LET base == BaseJar(t)
      n == Len(base)
  IN  {base, <<>>}
      \cup {Append(base, RawCookie("PREF", "", ".youtube.com", -1))}
      \cup {Append(base, RawCookie("SID", Token(t), ".example.org", -1))}
      \cup {Append(base, RawCookie("SID", "", "accounts.google.com", -1))}
      \cup {Without(base, k) : k \in {1, n}}
      \cup {[base EXCEPT ![k].value = ""] : k \in {1, n}}
      \cup {[base EXCEPT ![k].domain = ".example.org"] : k \in {1, n}}

\* the classification of a page by the markers attemptLogin looks for
DetectionPage(content) == "captcha" \in content
NotFoundPage(content) == "notFound" \in content
VerifyPage(content) == content \cap {"verifyIdentity", "verifyIt"} # {}
TwoFactorPage(content) == content \cap {"twoStep", "verifyIt", "confirmIdentity"} # {}
WrongPasswordPage(content) == "wrongPassword" \in content

\* the ways one attemptLogin call can go: where it stops, the page it sees
\* there, the result of the logged-in probe and the cookies of the page
Scenarios(t) ==
  [kind : {"newPageThrows", "exception", "closeThrows"},
   content : {{}}, loggedIn : {FALSE}, cookies : {<<>>}]
  \cup [kind : {"noPasswordField"},
        content : PageContents, loggedIn : {FALSE}, cookies : {<<>>}]
  \cup [kind : {"passwordSubmitted"},
        content : {S \in PageContents : TwoFactorPage(S) \/ WrongPasswordPage(S)},
        loggedIn : {FALSE}, cookies : {<<>>}]
  \cup [kind : {"passwordSubmitted"},
        content : {{}, {"captcha"}}, loggedIn : BOOLEAN, cookies : Jars(t)]

\* the failures the design calls terminal for the account

TerminalCondition(scn) ==
  \/ /\ scn.kind = "noPasswordField"
     /\ DetectionPage(scn.content) \/ NotFoundPage(scn.content) \/ VerifyPage(scn.content)
  \/ /\ scn.kind = "passwordSubmitted"
     /\ TwoFactorPage(scn.content) \/ WrongPasswordPage(scn.content)

\* attemptLogin without its validateCookies step
AttemptLoginUnvalidated(scn, t) ==
  IF scn.kind \in {"newPageThrows", "closeThrows"}
    THEN [threw |-> TRUE, cookies |-> Null]
  ELSE IF scn.kind = "exception"
    THEN [threw |-> FALSE, cookies |-> Null]
  ELSE IF scn.kind = "noPasswordField"
    THEN [threw |-> FALSE, cookies |-> Null]
  ELSE IF TwoFactorPage(scn.content)
    THEN [threw |-> FALSE, cookies |-> Null]
  ELSE IF WrongPasswordPage(scn.content)
    THEN [threw |-> FALSE, cookies |-> Null]
  ELSE [threw |-> FALSE, cookies |-> Arr(ConvertCookies(FilterCookies(scn.cookies), t))]

\* attemptLogin with a validateCookies that throws instead of returning false,
\* outside the try block
AttemptLoginValidationThrows(scn, t) ==
  IF scn.kind \in {"newPageThrows", "closeThrows"}
    THEN [threw |-> TRUE, cookies |-> Null]
  ELSE IF scn.kind = "exception"
    THEN [threw |-> FALSE, cookies |-> Null]
  ELSE IF scn.kind = "noPasswordField"
    THEN [threw |-> FALSE, cookies |-> Null]
  ELSE IF TwoFactorPage(scn.content)
    THEN [threw |-> FALSE, cookies |-> Null]
  ELSE IF WrongPasswordPage(scn.content)
    THEN [threw |-> FALSE, cookies |-> Null]
  ELSE LET filteredCookies == FilterCookies(scn.cookies)
       IN  IF ~ValidateCookies(filteredCookies)
             THEN [threw |-> TRUE, cookies |-> Null]
             ELSE [threw |-> FALSE, cookies |-> Arr(ConvertCookies(filteredCookies, t))]

\* attemptLogin without its catch block: an exception of a step, a timeout of
\* page.goto or of waitForSelector among them, leaves the function
AttemptLoginTimeoutUncaught(scn, t) ==
  IF scn.kind \in {"newPageThrows", "closeThrows", "exception"}
    THEN [threw |-> TRUE, cookies |-> Null]
  ELSE IF scn.kind = "noPasswordField"
    THEN [threw |-> FALSE, cookies |-> Null]
  ELSE IF TwoFactorPage(scn.content)
    THEN [threw |-> FALSE, cookies |-> Null]
  ELSE IF WrongPasswordPage(scn.content)
    THEN [threw |-> FALSE, cookies |-> Null]
  ELSE LET filteredCookies == FilterCookies(scn.cookies)
       IN  IF ~ValidateCookies(filteredCookies)
             THEN [threw |-> FALSE, cookies |-> Null]
             ELSE [threw |-> FALSE, cookies |-> Arr(ConvertCookies(filteredCookies, t))]

\* attemptLogin that returns null when the avatar and the sign-in link say
\* that the page is not logged in
AttemptLoginProbeAborts(scn, t) ==
  IF scn.kind \in {"newPageThrows", "closeThrows"}
    THEN [threw |-> TRUE, cookies |-> Null]
  ELSE IF scn.kind = "exception"
    THEN [threw |-> FALSE, cookies |-> Null]
  ELSE IF scn.kind = "noPasswordField"
    THEN [threw |-> FALSE, cookies |-> Null]
  ELSE IF TwoFactorPage(scn.content)
    THEN [threw |-> FALSE, cookies |-> Null]
  ELSE IF WrongPasswordPage(scn.content)
    THEN [threw |-> FALSE, cookies |-> Null]
  ELSE IF ~scn.loggedIn
    THEN [threw |-> FALSE, cookies |-> Null]
  ELSE LET filteredCookies == FilterCookies(scn.cookies)
       IN  IF ~ValidateCookies(filteredCookies)
             THEN [threw |-> FALSE, cookies |-> Null]
             ELSE [threw |-> FALSE, cookies |-> Arr(ConvertCookies(filteredCookies, t))]

\* attemptLogin without the wrong-password test after the password is submitted
AttemptLoginNoWrongPasswordTest(scn, t) ==
  IF scn.kind \in {"newPageThrows", "closeThrows"}
    THEN [threw |-> TRUE, cookies |-> Null]
  ELSE IF scn.kind = "exception"
    THEN [threw |-> FALSE, cookies |-> Null]
  ELSE IF scn.kind = "noPasswordField"
    THEN [threw |-> FALSE, cookies |-> Null]
  ELSE IF TwoFactorPage(scn.content)
    THEN [threw |-> FALSE, cookies |-> Null]
  ELSE LET filteredCookies == FilterCookies(scn.cookies)
       IN  IF ~ValidateCookies(filteredCookies)
             THEN [threw |-> FALSE, cookies |-> Null]
             ELSE [threw |-> FALSE, cookies |-> Arr(ConvertCookies(filteredCookies, t))]

\* attemptLogin: the cookies it returns (Null on failure), or a rejection
AttemptLogin(scn, t) ==
  IF scn.kind \in {"newPageThrows", "closeThrows"}
    THEN [threw |-> TRUE, cookies |-> Null]
  ELSE IF scn.kind = "exception"
    THEN [threw |-> FALSE, cookies |-> Null]
  ELSE IF scn.kind = "noPasswordField"
    THEN [threw |-> FALSE, cookies |-> Null]
  ELSE IF TwoFactorPage(scn.content)
    THEN [threw |-> FALSE, cookies |-> Null]
  ELSE IF WrongPasswordPage(scn.content)
    THEN [threw |-> FALSE, cookies |-> Null]
  ELSE LET filteredCookies == FilterCookies(scn.cookies)
       IN  IF ~ValidateCookies(filteredCookies)
             THEN [threw |-> FALSE, cookies |-> Null]
             ELSE [threw |-> FALSE, cookies |-> Arr(ConvertCookies(filteredCookies, t))]

\* the attempt got as far as validateCookies and its cookies were rejected there
ValidationFailed(scn) ==
  /\ scn.kind = "passwordSubmitted"
  /\ ~TwoFactorPage(scn.content)
  /\ ~WrongPasswordPage(scn.content)
  /\ ~ValidateCookies(FilterCookies(scn.cookies))

\* the class of an attempt, as recorded for the properties
AttemptClass(scn, res) ==
  IF res.threw THEN "crash"
  ELSE IF Truthy(res.cookies) /\ Len(res.cookies.items) > 0 THEN "success"
  ELSE IF TerminalCondition(scn) THEN "terminal"
  ELSE "retryable"

----------------------------------------------------------------------------
(* config/accounts.json and loadAccountsConfig *)

AccountLists ==
  UNION {{[k \in 1..n |-> [email |-> k, enabled |-> f[k]]] : f \in [1..n -> BOOLEAN]}
           : n \in 0..MaxAccounts}

RawConfigs ==
  [exists : {FALSE}, parses : {FALSE}, accounts : {<<>>},
   maxRetries : {NoValue}, failover : {TRUE}]
  \cup [exists : {TRUE}, parses : {FALSE}, accounts : {<<>>},
        maxRetries : {NoValue}, failover : {TRUE}]
  \cup [exists : {TRUE}, parses : {TRUE}, accounts : AccountLists,
        maxRetries : {NoValue} \cup (1..MaxRetriesCfg), failover : BOOLEAN]

NoConfig == [isNull |-> TRUE]

\* config/accounts.json does not exist
NoAccountsJson ==
  [exists |-> FALSE, parses |-> FALSE, accounts |-> <<>>, maxRetries |-> NoValue,
   failover |-> TRUE]

\* loadAccountsConfig without its filter on enabled
LoadAccountsConfigUnfiltered(raw) ==
  IF ~raw.exists THEN NoConfig
  ELSE IF ~raw.parses THEN NoConfig
  ELSE IF Len(raw.accounts) = 0 THEN NoConfig
  ELSE [isNull |-> FALSE, accounts |-> raw.accounts,
        rotation |-> [maxRetries |-> raw.maxRetries, failover |-> raw.failover]]

\* loadAccountsConfig: null, or the configuration with its enabled accounts
LoadAccountsConfig(raw) ==
  IF ~raw.exists THEN NoConfig
  ELSE IF ~raw.parses THEN NoConfig
  ELSE IF Len(raw.accounts) = 0 THEN NoConfig
  ELSE LET enabledAccounts == SelectSeq(raw.accounts, LAMBDA acc : acc.enabled # FALSE)
       IN  IF Len(enabledAccounts) = 0 THEN NoConfig
           ELSE [isNull |-> FALSE, accounts |-> enabledAccounts,
                 rotation |-> [maxRetries |-> raw.maxRetries, failover |-> raw.failover]]

\* the retry budget without its default
MaxRetriesPerAccountNoDefault(cfg) == cfg.rotation.maxRetries

\* rotation?.maxRetries || 3
MaxRetriesPerAccount(cfg) ==
  IF cfg.rotation.maxRetries = NoValue THEN DefaultMaxRetries ELSE cfg.rotation.maxRetries

----------------------------------------------------------------------------
(* The loops of refreshCookies: where control goes after one attemptLogin *)

Position(p, idx, att) == [pc |-> p, i |-> idx, attempt |-> att]

\* the loops with attempt <= maxRetriesPerAccount as the test for a retry
NextStepRetryOffByOne(ok, idx, att, n, max) ==
  IF ok THEN Position("save", idx, att)
  ELSE IF att <= max THEN Position("backoff", idx, att)
  ELSE IF idx < n THEN Position("attempt", idx + 1, 1)
  ELSE Position("exhausted", idx, att)

\* the loops without the break of the outer loop
NextStepNoOuterBreak(ok, idx, att, n, max) ==
  IF ok /\ idx < n THEN Position("attempt", idx + 1, 1)
  ELSE IF ok THEN Position("save", idx, att)
  ELSE IF att < max THEN Position("backoff", idx, att)
  ELSE IF idx < n THEN Position("attempt", idx + 1, 1)
  ELSE Position("exhausted", idx, att)

\* the loops followed by saveCookies whatever successfulCookies is
NextStepSaveAlways(ok, idx, att, n, max) ==
  IF ok THEN Position("save", idx, att)
  ELSE IF att < max THEN Position("backoff", idx, att)
  ELSE IF idx < n THEN Position("attempt", idx + 1, 1)
  ELSE Position("save", idx, att)

\* the loops going back to the first account after the last one
NextStepWrapAround(ok, idx, att, n, max) ==
  IF ok THEN Position("save", idx, att)
  ELSE IF att < max THEN Position("backoff", idx, att)
  ELSE IF idx < n THEN Position("attempt", idx + 1, 1)
  ELSE IF n > 1 THEN Position("attempt", 1, 1)
  ELSE Position("exhausted", idx, att)

\* the loops without the inner loop: one attempt per account
NextStepNoRetry(ok, idx, att, n, max) ==
  IF ok THEN Position("save", idx, att)
  ELSE IF idx < n THEN Position("attempt", idx + 1, 1)
  ELSE Position("exhausted", idx, att)

\* the loops without the sleep before a retry
NextStepNoBackoff(ok, idx, att, n, max) ==
  IF ok THEN Position("save", idx, att)
  ELSE IF att < max THEN Position("attempt", idx, att + 1)
  ELSE IF idx < n THEN Position("attempt", idx + 1, 1)
  ELSE Position("exhausted", idx, att)

\* ok: the attempt returned a non-empty array; idx, att: the loop variables;
\* n: accounts.length; max: maxRetriesPerAccount
NextStep(ok, idx, att, n, max) ==
  IF ok THEN Position("save", idx, att)
  ELSE IF att < max THEN Position("backoff", idx, att)
  ELSE IF idx < n THEN Position("attempt", idx + 1, 1)
  ELSE Position("exhausted", idx, att)

----------------------------------------------------------------------------
(* saveCookies: cookies.json and the cookies.backup_<Date.now()>.json files *)

RECURSIVE Digits(_)
Digits(n) == IF n < 10 THEN <<n>> ELSE Append(Digits(n \div 10), n % 10)

\* the order of Array.prototype.sort() on two backup names, which differ in
\* their decimal timestamps only: character by character, a prefix first
RECURSIVE LexLess(_, _)
LexLess(a, b) ==
  IF Len(b) = 0 THEN FALSE
  ELSE IF Len(a) = 0 THEN TRUE
  ELSE IF Head(a) # Head(b) THEN Head(a) < Head(b)
  ELSE LexLess(Tail(a), Tail(b))

NameLess(t1, t2) == LexLess(Digits(t1), Digits(t2))

\* the sorted timestamps without reverse(): oldest name first
RECURSIVE SortedNotReversed(_)
SortedNotReversed(S) ==
  IF S = {} THEN <<>>
  ELSE LET low == CHOOSE t \in S : \A u \in S \ {t} : NameLess(t, u)
       IN  <<low>> \o SortedNotReversed(S \ {low})

\* readdirSync(...).filter(...).sort().reverse(): the timestamps, newest name first
RECURSIVE SortedReversed(_)
SortedReversed(S) ==
  IF S = {} THEN <<>>
  ELSE LET top == CHOOSE t \in S : \A u \in S \ {t} : NameLess(u, t)
       IN  <<top>> \o SortedReversed(S \ {top})

\* the slice taken from the other end: all but the last five
SliceKeepOldest(seq) ==
  IF Len(seq) > KeepBackups THEN SubSeq(seq, 1, Len(seq) - KeepBackups) ELSE <<>>

\* backups.slice(5)
Slice(seq) ==
  IF Len(seq) > KeepBackups THEN SubSeq(seq, KeepBackups + 1, Len(seq)) ELSE <<>>

BackupNames(bs) == {b.ts : b \in bs}

\* a saveCookies that makes no backup of the file it overwrites
CopyToBackupSkipped(bs, file, t) == bs

\* fs.copyFileSync(COOKIES_OUTPUT_PATH, backupPath): replaces a file of that name
CopyToBackup(bs, file, t) ==
  {b \in bs : b.ts # t} \cup {[ts |-> t, data |-> file]}

\* the names the forEach of saveCookies unlinks, in its order
Doomed(bs) == Slice(SortedReversed(BackupNames(bs)))

\* the backups that are left when the first k of the doomed files are unlinked
Unlinked(bs, k) == {b \in bs : \A j \in 1..k : b.ts # Doomed(bs)[j]}

\* the properties of a converted cookie, in the order convertCookies sets them
FieldOrder ==
  <<"domain", "expirationDate", "hostOnly", "httpOnly", "name", "path", "sameSite",
    "secure", "session", "storeId", "value">>

StringFields == {"domain", "name", "path", "sameSite", "storeId", "value"}
NumberFields == {"expirationDate"}

\* the number a sequence of decimal digits denotes
RECURSIVE DigitsValue(_)
DigitsValue(ds) ==
  IF Len(ds) = 0 THEN 0 ELSE 10 * DigitsValue(SubSeq(ds, 1, Len(ds) - 1)) + ds[Len(ds)]

\* the JSON literal of a property value
Literal(key, v) ==
  IF key \in StringFields THEN [kind |-> "string", chars |-> v]
  ELSE IF key \in NumberFields THEN [kind |-> "number", digits |-> Digits(v)]
  ELSE [kind |-> "boolean", word |-> IF v THEN "true" ELSE "false"]

\* JSON.stringify of one object: its properties in insertion order as
\* key: literal members, a property whose value is undefined left out
StringifyObject(obj) ==
  LET written == SelectSeq(FieldOrder,
                   LAMBDA key : ~(key \in StringFields /\ obj[key] = Undefined))
  IN  [j \in 1..Len(written) |->
         [key |-> written[j], literal |-> Literal(written[j], obj[written[j]])]]

\* the text JSON.stringify(cookies, null, 2) returns: null, or the array of
\* the texts of its objects
JSONText(cookies) ==
  IF cookies.isNull THEN Null
  ELSE Arr([k \in 1..Len(cookies.items) |-> StringifyObject(cookies.items[k])])

\* cookies.json after writeFileSync wrote the whole text of cookies to it
JSONStringify(cookies) == [exists |-> TRUE, whole |-> TRUE, data |-> JSONText(cookies)]

\* the value a JSON literal denotes
LiteralValue(lit) ==
  IF lit.kind = "string" THEN lit.chars
  ELSE IF lit.kind = "number" THEN DigitsValue(lit.digits)
  ELSE lit.word = "true"

\* the object the members of one object text denote
ParseObject(members) ==
  [key \in {members[j].key : j \in 1..Len(members)} |->
     LiteralValue(members[CHOOSE j \in 1..Len(members) : members[j].key = key].literal)]

\* JSON.parse of the content of cookies.json, as a reader of the file does it
JSONParse(file) ==
  IF file.data.isNull THEN Null
  ELSE Arr([k \in 1..Len(file.data.items) |-> ParseObject(file.data.items[k])])

\* cookies.json right after writeFileSync opened it with flag 'w'
Truncated == [exists |-> TRUE, whole |-> FALSE, data |-> Arr(<<>>)]

\* the texts cookies.json can hold while the text of cookies is being written
PartialTexts(cookies) ==
  IF cookies.isNull THEN {}
  ELSE {[exists |-> TRUE, whole |-> FALSE,
          data |-> Arr(SubSeq(JSONText(cookies).items, 1, k))]
          : k \in 1..(IF Len(cookies.items) - 1 < MaxPartial
                         THEN Len(cookies.items) - 1 ELSE MaxPartial)}

----------------------------------------------------------------------------
(* The state machine *)

NotRead == [read |-> FALSE]
NoVerdict == [done |-> FALSE]
NoCall == [kind |-> "none"]
NoResult == [threw |-> FALSE, cookies |-> Null]
NoReport == [account |-> 0, count |-> 0]
NoAttempt == [account |-> 0, attempt |-> 0, class |-> "none", validationFailed |-> FALSE]

\* the runs of the script that can be under way at once, and a run that is not
Runners == {"scheduled", "onDemand"}
NoWriters == [w \in Runners |-> [pc |-> "idle", cookies |-> Null, doomed |-> <<>>]]

\* the /convert requests of one user that can be under way at once, a request
\* that has not arrived, and the stored profile before any of them
MaxRequests == 2       \* /convert requests that reach the server
DownloadsLimit == 1    \* downloads_limit of the stored profile
Requests == 1..MaxRequests
NoRequest == [pc |-> "idle", user |-> FALSE, path |-> "none", read |-> NoValue,
              counter |-> "none", status |-> NoValue]
NoQuota == [downloads_used |-> 0, downloads_limit |-> DownloadsLimit,
            requests |-> [r \in Requests |-> NoRequest]]

Init ==
  /\ pc = "idle"
  /\ config = NoConfig
  /\ i = 1
  /\ attempt = 1
  /\ successfulCookies = Null
  /\ successAccount = 0
  /\ cookieFile \in {NoFile, JSONStringify(Arr(ConvertCookies(BaseJar(Epoch), Epoch)))}
  /\ backups = {}
  /\ now = Epoch
  /\ runs = 0
  /\ exitCode = -1
  /\ outcome = "none"
  /\ attempts = [k \in 1..MaxAccounts |-> 0]
  /\ last = NoAttempt
  /\ saveCalled = FALSE
  /\ prior = [file |-> cookieFile, backups |-> {}]
  /\ history = <<>>
  /\ persisted = 0
  /\ failures = 0
  /\ observed = NotRead
  /\ browser = "none"
  /\ accountsJson = NoAccountsJson
  /\ harvest = <<>>
  /\ verdict = NoVerdict
  /\ conversions = <<>>
  /\ pages = 0
  /\ context = <<>>
  /\ current = NoCall
  /\ shots = <<>>
  /\ result = NoResult
  /\ report = NoReport
  /\ writers = NoWriters
  /\ quota = NoQuota

\* process.exit(code), or the end of the script
Exit(code, how) ==
  /\ pc' = "idle"
  /\ exitCode' = code
  /\ outcome' = how

\* refreshCookies with puppeteer.launch ahead of loadAccountsConfig
StartRunLaunchFirst ==
  /\ pc = "idle"
  /\ runs = 0
  /\ \E raw \in RawConfigs, launched \in BOOLEAN :
       LET cfg == LoadAccountsConfig(raw)
       IN  /\ accountsJson' = raw
           /\ config' = cfg
           /\ IF ~launched THEN Exit(1, "fatal") /\ browser' = "none"
              ELSE IF cfg.isNull THEN Exit(1, "configInvalid") /\ browser' = "launched"
              ELSE /\ pc' = "attempt"
                   /\ browser' = "launched"
                   /\ UNCHANGED <<exitCode, outcome>>
  /\ runs' = runs + 1
  /\ now' = now + 1
  /\ i' = 1
  /\ attempt' = 1
  /\ successfulCookies' = Null
  /\ successAccount' = 0
  /\ attempts' = [k \in 1..MaxAccounts |-> 0]
  /\ last' = NoAttempt
  /\ saveCalled' = FALSE
  /\ prior' = [file |-> cookieFile, backups |-> backups]
  /\ observed' = NotRead
  /\ UNCHANGED <<quota, writers, pages, context, current, shots, result, report, harvest,
                 verdict, conversions, cookieFile, backups, history, persisted,
                 failures>>

\* node scripts/refresh-cookies.js, once: refreshCookies up to the first attempt
StartRun ==
  /\ pc = "idle"
  /\ runs = 0
  /\ \E raw \in RawConfigs, launched \in BOOLEAN :
       LET cfg == LoadAccountsConfig(raw)
       IN  /\ accountsJson' = raw
           /\ config' = cfg
           /\ IF cfg.isNull THEN Exit(1, "configInvalid") /\ browser' = "none"
              ELSE IF ~launched THEN Exit(1, "fatal") /\ browser' = "none"
              ELSE /\ pc' = "attempt"
                   /\ browser' = "launched"
                   /\ UNCHANGED <<exitCode, outcome>>
  /\ runs' = runs + 1
  /\ now' = now + 1
  /\ i' = 1
  /\ attempt' = 1
  /\ successfulCookies' = Null
  /\ successAccount' = 0
  /\ attempts' = [k \in 1..MaxAccounts |-> 0]
  /\ last' = NoAttempt
  /\ saveCalled' = FALSE
  /\ prior' = [file |-> cookieFile, backups |-> backups]
  /\ observed' = NotRead
  /\ UNCHANGED <<quota, writers, pages, context, current, shots, result, report, harvest,
                 verdict, conversions, cookieFile, backups, history, persisted,
                 failures>>

\* one pass of the inner loop: attemptLogin and what the loops do with its result
LoginAttempt ==
  /\ pc = "attempt"
  /\ \E scn \in Scenarios(now) :
       LET account == config.accounts[i]
           res == AttemptLogin(scn, now)
           cookies == res.cookies
           ok == Truthy(cookies) /\ Len(cookies.items) > 0
           next == NextStep(ok, i, attempt, Len(config.accounts),
                            MaxRetriesPerAccount(config))
       IN  /\ attempts' = [attempts EXCEPT ![account.email] = @ + 1]
           /\ last' = [account |-> account.email, attempt |-> attempt,
                       class |-> AttemptClass(scn, res),
                       validationFailed |-> ValidationFailed(scn)]
           /\ IF res.threw
                THEN /\ Exit(1, "fatal")
                     /\ browser' = "closed"
                     /\ UNCHANGED <<i, attempt, successfulCookies, successAccount,
                                    harvest>>
                ELSE /\ pc' = next.pc
                     /\ i' = next.i
                     /\ attempt' = next.attempt
                     /\ successfulCookies' = IF ok THEN cookies ELSE successfulCookies
                     /\ successAccount' = IF ok THEN account.email ELSE successAccount
                     /\ harvest' = IF ok THEN scn.cookies ELSE harvest
                     /\ UNCHANGED <<exitCode, outcome, browser>>
  /\ UNCHANGED <<quota, writers, pages, context, current, shots, result, report, verdict,
                 conversions, accountsJson, config, cookieFile, backups, now, runs,
                 saveCalled, prior, history, observed, persisted, failures>>

\* the sleep before a retry, and attempt++
Backoff ==
  /\ pc = "backoff"
  /\ attempt' = attempt + 1
  /\ pc' = "attempt"
  /\ UNCHANGED <<quota, writers, pages, context, current, shots, result, report, harvest,
                 verdict, conversions, accountsJson, browser, config, i,
                 successfulCookies, successAccount, cookieFile, backups, now, runs,
                 exitCode, outcome, attempts, last, saveCalled, prior, history,
                 observed, persisted, failures>>

\* the else branch after the loops: the report and process.exit(1)
ReportExhausted ==
  /\ pc = "exhausted"
  /\ Exit(1, "exhausted")
  /\ UNCHANGED <<quota, writers, pages, context, current, shots, result, report, harvest,
                 verdict, conversions, accountsJson, browser, config, i, attempt,
                 successfulCookies, successAccount, cookieFile, backups, now, runs,
                 attempts, last, saveCalled, prior, history, observed, persisted,
                 failures>>

\* saveCookies, first step: existsSync and copyFileSync of cookies.json
SaveBackup ==
  /\ pc = "save"
  /\ saveCalled' = TRUE
  /\ IF cookieFile.exists
       THEN /\ backups' = CopyToBackup(backups, cookieFile, now)
            /\ pc' = "prune"
       ELSE /\ pc' = "write"
            /\ UNCHANGED backups
  /\ UNCHANGED <<quota, writers, pages, context, current, shots, result, report, harvest,
                 verdict, conversions, accountsJson, browser, config, i, attempt,
                 successfulCookies, successAccount, cookieFile, now, runs, exitCode,
                 outcome, attempts, last, prior, history, observed, persisted,
                 failures>>

\* saveCookies: the listing of the backups and the unlinking of all but five
SavePrune ==
  /\ pc = "prune"
  /\ backups' = Unlinked(backups, Len(Doomed(backups)))
  /\ pc' = "write"
  /\ UNCHANGED <<quota, writers, pages, context, current, shots, result, report, harvest,
                 verdict, conversions, accountsJson, browser, config, i, attempt,
                 successfulCookies, successAccount, cookieFile, now, runs, exitCode,
                 outcome, attempts, last, saveCalled, prior, history, observed,
                 persisted, failures>>

\* writeFileSync opens cookies.json for writing, which empties it
SaveOpen ==
  /\ pc = "write"
  /\ cookieFile' = Truncated
  /\ history' = IF cookieFile.exists THEN Append(history, cookieFile) ELSE history
  /\ pc' = "writing"
  /\ UNCHANGED <<quota, writers, pages, context, current, shots, result, report, harvest,
                 verdict, conversions, accountsJson, browser, config, i, attempt,
                 successfulCookies, successAccount, backups, now, runs, exitCode,
                 outcome, attempts, last, saveCalled, prior, observed, persisted,
                 failures>>

\* writeFileSync writes the text, in one or in several writes
SaveWrite ==
  /\ pc = "writing"
  /\ \/ /\ cookieFile' \in {t \in PartialTexts(successfulCookies) :
                              Len(t.data.items) > Len(cookieFile.data.items)}
        /\ UNCHANGED pc
     \/ /\ cookieFile' = JSONStringify(successfulCookies)
        /\ pc' = "saved"
  /\ UNCHANGED <<quota, writers, pages, context, current, shots, result, report, harvest,
                 verdict, conversions, accountsJson, browser, config, i, attempt,
                 successfulCookies, successAccount, backups, now, runs, exitCode,
                 outcome, attempts, last, saveCalled, prior, history, observed,
                 persisted, failures>>

\* a report that names the first account of the pool
SuccessReportOfFirst(account, cookies) ==
  [account |-> config.accounts[1].email, count |-> Len(cookies.items)]

\* the lines "Account used" and "Cookies exported" of the success report
SuccessReport(account, cookies) ==
  [account |-> account, count |-> Len(cookies.items)]

\* the log lines that end saveCookies (cookies.length), the success report of
\* refreshCookies, browser.close() and the end of the script
ReportSuccess ==
  /\ pc = "saved"
  /\ IF successfulCookies.isNull
       THEN Exit(1, "fatal") /\ failures' = failures + 1 /\ UNCHANGED persisted
       ELSE Exit(0, "success") /\ persisted' = persisted + 1 /\ UNCHANGED failures
  /\ report' = IF successfulCookies.isNull THEN report
               ELSE SuccessReport(successAccount, successfulCookies)
  /\ browser' = "closed"
  /\ UNCHANGED <<quota, writers, pages, context, current, shots, result, harvest, verdict,
                 conversions, accountsJson, config, i, attempt, successfulCookies,
                 successAccount, cookieFile, backups, now, runs, attempts, last,
                 saveCalled, prior, history, observed>>

\* a file system call of saveCookies throws: saveCookies rethrows, refreshCookies
\* rejects and the catch at the end of the script exits with 1
SaveFails ==
  /\ pc \in {"save", "prune", "write", "writing"}
  /\ failures < MaxFailures
  /\ IF pc = "prune"
       THEN \E k \in 0..(Len(Doomed(backups)) - 1) : backups' = Unlinked(backups, k)
       ELSE UNCHANGED backups
  /\ pc = "save" => cookieFile.exists
  /\ saveCalled' = TRUE
  /\ failures' = failures + 1
  /\ Exit(1, "fatal")
  /\ browser' = "closed"
  /\ UNCHANGED <<quota, writers, pages, context, current, shots, result, report, harvest,
                 verdict, conversions, accountsJson, config, i, attempt,
                 successfulCookies, successAccount, cookieFile, now, runs, attempts,
                 last, prior, history, persisted, observed>>

\* a consumer of the session file (yt-dlp) reads cookies.json
ConsumerRead ==
  /\ ~observed.read
  /\ observed' = [read |-> TRUE, file |-> cookieFile]
  /\ UNCHANGED <<quota, writers, pages, context, current, shots, result, report, harvest,
                 verdict, conversions, accountsJson, browser, pc, config, i,
                 attempt, successfulCookies, successAccount, cookieFile, backups,
                 now, runs, exitCode, outcome, attempts, last, saveCalled, prior,
                 history, persisted, failures>>

Next ==
  \/ StartRun
  \/ LoginAttempt
  \/ Backoff
  \/ ReportExhausted
  \/ SaveBackup
  \/ SavePrune
  \/ SaveOpen
  \/ SaveWrite
  \/ ReportSuccess
  \/ SaveFails
  \/ ConsumerRead

Spec == Init /\ [][Next]_vars

----------------------------------------------------------------------------
(* The loops of refreshCookies on their own: a run from its start to the    *)
(* point where the loops are left, for saveCookies or for the report that   *)
(* the accounts are exhausted.  Node runs the script on once it is started. *)

NextController ==
  \/ StartRun
  \/ LoginAttempt
  \/ Backoff
  \/ ReportExhausted

SpecController == Init /\ [][NextController]_vars /\ WF_vars(NextController)

----------------------------------------------------------------------------
(* The session store over many runs: every run is one that reached its    *)
(* saveCookies call, the steps of saveCookies are those of Spec            *)

\* a run of the script whose loops ended with successfulCookies set
SucceedingRun ==
  /\ pc = "idle"
  /\ runs < MaxPersists
  /\ now' = now + 1
  /\ runs' = runs + 1
  /\ \E scn \in {sc \in Scenarios(now') : sc.cookies = BaseJar(now')} :
       LET res == AttemptLogin(scn, now')
       IN  /\ ~res.threw
           /\ Truthy(res.cookies) /\ Len(res.cookies.items) > 0
           /\ successfulCookies' = res.cookies
           /\ harvest' = scn.cookies
  /\ pc' = "save"
  /\ browser' = "launched"
  /\ saveCalled' = FALSE
  /\ prior' = [file |-> cookieFile, backups |-> backups]
  /\ UNCHANGED <<quota, writers, pages, context, current, shots, result, report, verdict,
                 conversions, accountsJson, config, i, attempt, successAccount,
                 cookieFile, backups, exitCode, outcome, attempts, last, history,
                 persisted, failures, observed>>

NextStore ==
  \/ SucceedingRun
  \/ SaveBackup
  \/ SavePrune
  \/ SaveOpen
  \/ SaveWrite
  \/ ReportSuccess
  \/ SaveFails

SpecStore == Init /\ [][NextStore]_vars

----------------------------------------------------------------------------
(* validateCookies and convertCookies on their own: a cookie array is given, *)
(* the two functions are called on it, convertCookies at several clock times *)

MaxDefects == 2        \* required cookies that are absent or empty in an array
MaxConversions == 2    \* convertCookies calls on one array
MaxTicks == 2          \* clock ticks while the calls are made

DomainAt(k) ==
  <<".youtube.com", "www.youtube.com", ".google.com",
    "accounts.google.com">>[((k - 1) % 4) + 1]

\* expires as puppeteer reports it: a time, -1 for a session cookie, or unset
ExpiresAt(k) == <<Epoch + 100, -1, 0>>[((k - 1) % 3) + 1]

\* the arrays page.cookies() can return: each required cookie set, empty or
\* absent, followed by nothing, by a cookie of another name, or by a second
\* cookie of a required name
HarvestInputs ==
  LET States == {f \in [1..Len(ESSENTIAL_COOKIES) -> {"set", "empty", "absent"}] :
                   Cardinality({k \in DOMAIN f : f[k] # "set"}) <= MaxDefects}
      CookieAt(f, k) ==
        RawCookie(ESSENTIAL_COOKIES[k], IF f[k] = "empty" THEN "" ELSE Token(Epoch),
                  DomainAt(k), ExpiresAt(k))
      Present(f) == SelectSeq([k \in 1..Len(ESSENTIAL_COOKIES) |-> k],
                              LAMBDA k : f[k] # "absent")
      Core(f) == [j \in 1..Len(Present(f)) |-> CookieAt(f, Present(f)[j])]
      Extras == {<<>>,
                 <<RawCookie("PREF", "", "www.youtube.com", 0)>>,
                 <<RawCookie("PREF", Token(Epoch), ".youtube.com", Epoch + 100)>>,
                 <<RawCookie("SID", "", "accounts.google.com", -1)>>,
                 <<[RawCookie("PREF", Token(Epoch), ".youtube.com", -1)
                      EXCEPT !.sameSite = "Lax"]>>}
  IN  {Core(f) \o e : f \in States, e \in Extras}

InitCookies ==
  /\ pc = "idle"
  /\ config = NoConfig
  /\ i = 1
  /\ attempt = 1
  /\ successfulCookies = Null
  /\ successAccount = 0
  /\ cookieFile = NoFile
  /\ backups = {}
  /\ now = Epoch
  /\ runs = 0
  /\ exitCode = -1
  /\ outcome = "none"
  /\ attempts = [k \in 1..MaxAccounts |-> 0]
  /\ last = NoAttempt
  /\ saveCalled = FALSE
  /\ prior = [file |-> NoFile, backups |-> {}]
  /\ history = <<>>
  /\ persisted = 0
  /\ failures = 0
  /\ observed = NotRead
  /\ browser = "none"
  /\ accountsJson = NoAccountsJson
  /\ harvest \in HarvestInputs
  /\ verdict = NoVerdict
  /\ conversions = <<>>
  /\ pages = 0
  /\ context = <<>>
  /\ current = NoCall
  /\ shots = <<>>
  /\ result = NoResult
  /\ report = NoReport
  /\ writers = NoWriters
  /\ quota = NoQuota

\* validateCookies(harvest)
ValidateHarvest ==
  /\ ~verdict.done
  /\ verdict' = [done |-> TRUE, ok |-> ValidateCookies(harvest)]
  /\ UNCHANGED <<quota, writers, pages, context, current, shots, result, report, pc,
                 config, i, attempt, successfulCookies, successAccount, cookieFile,
                 backups, now, runs, exitCode, outcome, attempts, last, saveCalled,
                 prior, history, persisted, failures, observed, browser,
                 accountsJson, harvest, conversions>>

\* convertCookies(harvest), with Date.now() read at the call
ConvertHarvest ==
  /\ Len(conversions) < MaxConversions
  /\ conversions' = Append(conversions,
                           [at |-> now, cookies |-> ConvertCookies(harvest, now)])
  /\ UNCHANGED <<quota, writers, pages, context, current, shots, result, report, pc,
                 config, i, attempt, successfulCookies, successAccount, cookieFile,
                 backups, now, runs, exitCode, outcome, attempts, last, saveCalled,
                 prior, history, persisted, failures, observed, browser,
                 accountsJson, harvest, verdict>>

\* time passes
Tick ==
  /\ now < Epoch + MaxTicks
  /\ now' = now + 1
  /\ UNCHANGED <<quota, writers, pages, context, current, shots, result, report, pc,
                 config, i, attempt, successfulCookies, successAccount, cookieFile,
                 backups, runs, exitCode, outcome, attempts, last, saveCalled,
                 prior, history, persisted, failures, observed, browser,
                 accountsJson, harvest, verdict, conversions>>

NextCookies ==
  \/ ValidateHarvest
  \/ ConvertHarvest
  \/ Tick

SpecCookies == InitCookies /\ [][NextCookies]_vars

----------------------------------------------------------------------------
(* attemptLogin step by step: the page it opens on the browser of the run,  *)
(* what the page meets, the screenshots on the way and the closing of the   *)
(* page.  The calls are made by the loops of refreshCookies as in Spec.      *)

\* the diagnostics of a call: working, page.screenshot() or mkdirSync throws,
\* or appendFileSync to the log file throws
Sinks == {"ok", "screenshotFails", "logFails"}

\* log: console.log, and appendFileSync inside its own try/catch
Log(sink) == [threw |-> FALSE, appended |-> sink # "logFails"]

\* takeScreenshot without its try/catch
TakeScreenshotUncaught(sink) ==
  [threw |-> sink = "screenshotFails", saved |-> sink # "screenshotFails"]

\* takeScreenshot: the screenshot and its log line inside try/catch
TakeScreenshot(sink) ==
  [threw |-> Log(sink).threw, saved |-> sink # "screenshotFails"]

\* the tests of attemptLogin with the account-not-found test ahead of the
\* CAPTCHA test
ConditionNotFoundFirst(scn) ==
  IF scn.kind = "noPasswordField"
    THEN IF NotFoundPage(scn.content) THEN "accountNotFound"
         ELSE IF DetectionPage(scn.content) THEN "detection"
         ELSE IF VerifyPage(scn.content) THEN "verification"
         ELSE "unknown"
  ELSE IF scn.kind = "passwordSubmitted"
    THEN IF TwoFactorPage(scn.content) THEN "twoFactor"
         ELSE IF WrongPasswordPage(scn.content) THEN "wrongPassword"
         ELSE "none"
  ELSE "none"

\* what attemptLogin makes of the page it stops on, in the order of its tests
Condition(scn) ==
  IF scn.kind = "noPasswordField"
    THEN IF DetectionPage(scn.content) THEN "detection"
         ELSE IF NotFoundPage(scn.content) THEN "accountNotFound"
         ELSE IF VerifyPage(scn.content) THEN "verification"
         ELSE "unknown"
  ELSE IF scn.kind = "passwordSubmitted"
    THEN IF TwoFactorPage(scn.content) THEN "twoFactor"
         ELSE IF WrongPasswordPage(scn.content) THEN "wrongPassword"
         ELSE "none"
  ELSE "none"

\* the call gets as far as page.cookies()
Harvested(scn) == scn.kind = "passwordSubmitted" /\ Condition(scn) = "none"

\* the first arguments of the takeScreenshot calls of one attemptLogin call
ScreenshotLabels(scn) ==
  IF scn.kind = "exception" THEN <<"error">>
  ELSE IF scn.kind = "noPasswordField" THEN <<"no_password_field">>
  ELSE IF scn.kind = "passwordSubmitted"
    THEN IF TwoFactorPage(scn.content) THEN <<"2fa">>
         ELSE IF WrongPasswordPage(scn.content) THEN <<>>
         ELSE (IF scn.loggedIn THEN <<>> ELSE <<"login_failed">>)
              \o (IF ValidationFailed(scn) THEN <<"invalid_cookies">> ELSE <<>>)
  ELSE <<>>

\* the names takeScreenshot is given: label and account, and for the label
\* error also the attempt number
ScreenshotNames(scn, email, att, sink) ==
  LET labels == ScreenshotLabels(scn)
  IN  [k \in 1..Len(labels) |->
         [label |-> labels[k], account |-> email,
          attempt |-> IF labels[k] = "error" THEN att ELSE NoValue,
          saved |-> TakeScreenshot(sink).saved]]

\* attemptLogin with its diagnostics: a takeScreenshot or log call that throws
\* inside the try block is caught, and throws again in the catch block
AttemptLoginWithSink(scn, sink, t) ==
  IF Log(sink).threw THEN [threw |-> TRUE, cookies |-> Null]
  ELSE IF Len(ScreenshotLabels(scn)) > 0 /\ TakeScreenshot(sink).threw
    THEN [threw |-> TRUE, cookies |-> Null]
  ELSE AttemptLogin(scn, t)

MaxShown == 2          \* markers that the page of one call shows together

\* the page contents page.content() can return in one call
ShownContents == {S \in SUBSET Markers : Cardinality(S) <= MaxShown}

\* how far a page gets: the kind, the page content and the logged-in probe
Shapes(t) ==
  [kind : {"exception"}, content : {{}}, loggedIn : {FALSE}]
  \cup [kind : {"noPasswordField"}, content : ShownContents, loggedIn : {FALSE}]
  \cup [kind : {"passwordSubmitted"},
        content : {S \in ShownContents : TwoFactorPage(S) \/ WrongPasswordPage(S)},
        loggedIn : {FALSE}]
  \cup [kind : {"passwordSubmitted"}, content : {{}, {"captcha"}}, loggedIn : BOOLEAN]

\* the cookies the responses to one call can set: none, the session cookies
\* but the last one, all of them, or a cookie of another site
CookiesSetBy(shape, t) ==
  IF shape.kind = "noPasswordField" THEN {<<>>}
  ELSE {<<>>, Without(BaseJar(t), Len(BaseJar(t))), BaseJar(t),
        <<RawCookie("SID", Token(t), ".example.org", -1)>>}

\* browser.newPage() opens a page in the default context of the browser: the
\* cookies of the context stay, those of the call before are no longer new
Retag(ctx, att) ==
  [k \in 1..Len(ctx) |->
     [ctx[k] EXCEPT !.by = IF att = 1 THEN "otherAccount"
                           ELSE IF @ = "thisAttempt" THEN "earlierAttempt" ELSE @]]

\* the context after responses set cookies: a cookie replaces the one of its
\* name and domain
Merge(ctx, set) ==
  SelectSeq(ctx, LAMBDA e : \A j \in 1..Len(set) :
                              ~(set[j].name = e.cookie.name /\ set[j].domain = e.cookie.domain))
  \o [j \in 1..Len(set) |-> [cookie |-> set[j], by |-> "thisAttempt"]]

\* page.cookies(...) for the YouTube and Google URLs, taken to return every
\* cookie of the context, so that only the filter keeps other sites out
PageCookies(ctx) == [k \in 1..Len(ctx) |-> ctx[k].cookie]

\* config/accounts.json with all its accounts enabled
TracedConfig ==
  [exists |-> TRUE, parses |-> TRUE,
   accounts |-> [k \in 1..MaxAccounts |-> [email |-> k, enabled |-> TRUE]],
   maxRetries |-> MaxRetriesCfg, failover |-> TRUE]

InitAttempt == Init /\ cookieFile = NoFile

\* refreshCookies up to the first attemptLogin call
StartAttempts ==
  /\ StartRun
  /\ accountsJson' = TracedConfig
  /\ pc' = "attempt"

\* const page = await browser.newPage(), ahead of the try block
OpenPage ==
  /\ pc = "attempt"
  /\ \E opens \in BOOLEAN :
       IF opens
         THEN /\ pages' = pages + 1
              /\ context' = Retag(context, attempt)
              /\ current' = NoCall
              /\ shots' = <<>>
              /\ result' = NoResult
              /\ pc' = "page"
              /\ UNCHANGED <<attempts, last, exitCode, outcome, browser>>
         ELSE /\ attempts' = [attempts EXCEPT ![config.accounts[i].email] = @ + 1]
              /\ last' = [account |-> config.accounts[i].email, attempt |-> attempt,
                          class |-> "crash", validationFailed |-> FALSE]
              /\ Exit(1, "fatal")
              /\ browser' = "closed"
              /\ UNCHANGED <<pages, context, current, shots, result>>
  /\ UNCHANGED <<quota, writers, config, i, attempt, successfulCookies, successAccount,
                 cookieFile, backups, now, runs, saveCalled, prior, history,
                 persisted, failures, observed, accountsJson, harvest, verdict,
                 conversions, report>>

\* the try block and the catch block of attemptLogin
RunPage ==
  /\ pc = "page"
  /\ \E shape \in Shapes(now), sink \in Sinks :
       \E set \in CookiesSetBy(shape, now) :
         LET account == config.accounts[i]
             ctx == Merge(context, set)
             scn == [kind |-> shape.kind, content |-> shape.content,
                     loggedIn |-> shape.loggedIn, cookies |-> PageCookies(ctx)]
             res == AttemptLoginWithSink(scn, sink, now)
         IN  /\ context' = ctx
             /\ result' = res
             /\ shots' = ScreenshotNames(scn, account.email, attempt, sink)
             /\ current' = [kind |-> scn.kind, content |-> scn.content,
                            condition |-> Condition(scn),
                            loggedIn |-> scn.loggedIn, sink |-> sink,
                            harvested |-> Harvested(scn),
                            validationFailed |-> ValidationFailed(scn),
                            class |-> AttemptClass(scn, res),
                            undisturbed |-> AttemptLogin(scn, now)]
  /\ pc' = "closing"
  /\ UNCHANGED <<quota, writers, config, i, attempt, successfulCookies, successAccount,
                 cookieFile, backups, now, runs, exitCode, outcome, attempts, last,
                 saveCalled, prior, history, persisted, failures, observed, browser,
                 accountsJson, harvest, verdict, conversions, pages, report>>

\* a finally block that leaves the page open
PageCloseSkipped(n, closes) == n

\* await page.close(): the pages open after it, one fewer unless it throws
PageClose(n, closes) == IF closes THEN n - 1 ELSE n

\* the finally block of attemptLogin, and what the loops do with the result
ClosePage ==
  /\ pc = "closing"
  /\ \E closes \in BOOLEAN :
       LET account == config.accounts[i]
           res == IF closes THEN result ELSE [threw |-> TRUE, cookies |-> Null]
           cookies == res.cookies
           ok == Truthy(cookies) /\ Len(cookies.items) > 0
           next == NextStep(ok, i, attempt, Len(config.accounts),
                            MaxRetriesPerAccount(config))
       IN  /\ pages' = PageClose(pages, closes)
           /\ attempts' = [attempts EXCEPT ![account.email] = @ + 1]
           /\ last' = [account |-> account.email, attempt |-> attempt,
                       class |-> IF res.threw THEN "crash" ELSE current.class,
                       validationFailed |-> current.validationFailed]
           /\ IF res.threw
                THEN /\ Exit(1, "fatal")
                     /\ browser' = "closed"
                     /\ UNCHANGED <<i, attempt, successfulCookies, successAccount,
                                    harvest>>
                ELSE /\ pc' = next.pc
                     /\ i' = next.i
                     /\ attempt' = next.attempt
                     /\ successfulCookies' = IF ok THEN cookies ELSE successfulCookies
                     /\ successAccount' = IF ok THEN account.email ELSE successAccount
                     /\ harvest' = IF ok THEN PageCookies(context) ELSE harvest
                     /\ UNCHANGED <<exitCode, outcome, browser>>
  /\ UNCHANGED <<quota, writers, config, cookieFile, backups, now, runs, saveCalled, prior,
                 history, persisted, failures, observed, accountsJson, verdict,
                 conversions, context, current, shots, result, report>>

NextAttempt ==
  \/ StartAttempts
  \/ OpenPage
  \/ RunPage
  \/ ClosePage
  \/ Backoff
  \/ ReportExhausted

SpecAttempt == InitAttempt /\ [][NextAttempt]_vars

----------------------------------------------------------------------------
(* Two runs of the script on one cookies.json: the cron job of               *)
(* refresh-cookies.sh and a run by hand.  Each is a process of its own, so    *)
(* the file system calls of their saveCookies calls can come in any order.    *)

MaxWriterRuns == 2     \* runs of the script that reach saveCookies

\* the cookie arrays the loops of a run can end with
WriterJars(t) == {BaseJar(t), Append(BaseJar(t), RawCookie("PREF", "", ".youtube.com", -1))}

\* write(fd, text) at offset 0 of a file that another process has written to
\* since this one opened it: the bytes behind the text stay
Overwritten(file, text) ==
  LET old == file.data.items
      leftover == IF Len(old) > Len(text.items)
                    THEN SubSeq(old, Len(text.items) + 1, Len(old)) ELSE <<>>
  IN  [exists |-> TRUE, whole |-> leftover = <<>>, data |-> Arr(text.items \o leftover)]

\* cookies.json as a run at time t saved it
SavedAt(t) == JSONStringify(Arr(ConvertCookies(BaseJar(t), t)))

\* the store after earlier runs, one after the other, have filled it: the
\* session file of the last run and five backups, each of the file before it
InitWriters ==
  /\ pc = "idle"
  /\ config = NoConfig
  /\ i = 1
  /\ attempt = 1
  /\ successfulCookies = Null
  /\ successAccount = 0
  /\ cookieFile = SavedAt(Epoch + KeepBackups)
  /\ backups = {[ts |-> Epoch + k, data |-> SavedAt(Epoch + k - 1)] : k \in 1..KeepBackups}
  /\ now = Epoch + KeepBackups
  /\ runs = 0
  /\ exitCode = -1
  /\ outcome = "none"
  /\ attempts = [k \in 1..MaxAccounts |-> 0]
  /\ last = NoAttempt
  /\ saveCalled = FALSE
  /\ prior = [file |-> cookieFile, backups |-> backups]
  /\ history = <<>>
  /\ persisted = 0
  /\ failures = 0
  /\ observed = NotRead
  /\ browser = "none"
  /\ accountsJson = NoAccountsJson
  /\ harvest = <<>>
  /\ verdict = NoVerdict
  /\ conversions = <<>>
  /\ pages = 0
  /\ context = <<>>
  /\ current = NoCall
  /\ shots = <<>>
  /\ result = NoResult
  /\ report = NoReport
  /\ writers = NoWriters
  /\ quota = NoQuota

\* a run of the script logs in and calls saveCookies
WriterStart(w) ==
  /\ writers[w].pc \in {"idle", "saved", "failed"}
  /\ runs < MaxWriterRuns
  /\ runs' = runs + 1
  /\ now' = now + 1
  /\ \E jar \in WriterJars(now') :
       writers' = [writers EXCEPT ![w] = [pc |-> "save", doomed |-> <<>>,
                     cookies |-> Arr(ConvertCookies(FilterCookies(jar), now'))]]
  /\ UNCHANGED <<quota, cookieFile, backups, pc, config, i, attempt, successfulCookies,
                 successAccount, exitCode, outcome, attempts, last, saveCalled,
                 prior, history, persisted, failures, observed, browser,
                 accountsJson, harvest, verdict, conversions, pages, context,
                 current, shots, result, report>>

\* existsSync and copyFileSync to cookies.backup_<Date.now()>.json; the clock
\* has moved on when the next call reads it
WriterBackup(w) ==
  /\ writers[w].pc = "save"
  /\ IF cookieFile.exists
       THEN /\ backups' = CopyToBackup(backups, cookieFile, now)
            /\ writers' = [writers EXCEPT ![w].pc = "list"]
       ELSE /\ writers' = [writers EXCEPT ![w].pc = "open"]
            /\ UNCHANGED backups
  /\ now' = now + 1
  /\ UNCHANGED <<quota, cookieFile, runs, pc, config, i, attempt, successfulCookies,
                 successAccount, exitCode, outcome, attempts, last, saveCalled,
                 prior, history, persisted, failures, observed, browser,
                 accountsJson, harvest, verdict, conversions, pages, context,
                 current, shots, result, report>>

\* readdirSync, filter, sort, reverse and slice(5)
WriterList(w) ==
  /\ writers[w].pc = "list"
  /\ writers' = [writers EXCEPT ![w].doomed = Doomed(backups),
                                ![w].pc = IF Doomed(backups) = <<>> THEN "open" ELSE "unlink"]
  /\ UNCHANGED <<quota, cookieFile, backups, now, runs, pc, config, i, attempt,
                 successfulCookies, successAccount, exitCode, outcome, attempts,
                 last, saveCalled, prior, history, persisted, failures, observed,
                 browser, accountsJson, harvest, verdict, conversions, pages,
                 context, current, shots, result, report>>

\* one unlinkSync of the forEach: ENOENT when the file is no longer there
WriterUnlink(w) ==
  /\ writers[w].pc = "unlink"
  /\ LET name == Head(writers[w].doomed)
         rest == Tail(writers[w].doomed)
     IN  IF name \in BackupNames(backups)
           THEN /\ backups' = {b \in backups : b.ts # name}
                /\ writers' = [writers EXCEPT ![w].doomed = rest,
                                 ![w].pc = IF rest = <<>> THEN "open" ELSE "unlink"]
           ELSE /\ writers' = [writers EXCEPT ![w].pc = "failed"]
                /\ UNCHANGED backups
  /\ UNCHANGED <<quota, cookieFile, now, runs, pc, config, i, attempt, successfulCookies,
                 successAccount, exitCode, outcome, attempts, last, saveCalled,
                 prior, history, persisted, failures, observed, browser,
                 accountsJson, harvest, verdict, conversions, pages, context,
                 current, shots, result, report>>

\* writeFileSync opens cookies.json with flag 'w'
WriterOpen(w) ==
  /\ writers[w].pc = "open"
  /\ cookieFile' = Truncated
  /\ writers' = [writers EXCEPT ![w].pc = "write"]
  /\ UNCHANGED <<quota, backups, now, runs, pc, config, i, attempt, successfulCookies,
                 successAccount, exitCode, outcome, attempts, last, saveCalled,
                 prior, history, persisted, failures, observed, browser,
                 accountsJson, harvest, verdict, conversions, pages, context,
                 current, shots, result, report>>

\* writeFileSync writes the text and closes the file
WriterWrite(w) ==
  /\ writers[w].pc = "write"
  /\ cookieFile' = Overwritten(cookieFile, JSONText(writers[w].cookies))
  /\ writers' = [writers EXCEPT ![w].pc = "saved"]
  /\ UNCHANGED <<quota, backups, now, runs, pc, config, i, attempt, successfulCookies,
                 successAccount, exitCode, outcome, attempts, last, saveCalled,
                 prior, history, persisted, failures, observed, browser,
                 accountsJson, harvest, verdict, conversions, pages, context,
                 current, shots, result, report>>

NextWriters ==
  \E w \in Runners :
    \/ WriterStart(w)
    \/ WriterBackup(w)
    \/ WriterList(w)
    \/ WriterUnlink(w)
    \/ WriterOpen(w)
    \/ WriterWrite(w)

SpecWriters == InitWriters /\ [][NextWriters]_vars

----------------------------------------------------------------------------
\* POST /convert: authMiddleware, quotaMiddleware, the handler and
\* incrementDownloadCounter; every request is its own chain of awaits on the
\* one event loop, so requests interleave between the steps below

HttpOk == 200
HttpBadRequest == 400
HttpForbidden == 403
HttpServerError == 500

Respond(r, code) ==
  quota' = [quota EXCEPT !.requests[r].pc = "responded", !.requests[r].status = code]

InitQuota == Init /\ cookieFile = NoFile

\* authMiddleware: the request carries a valid token of the user, or none
Arrive(r) ==
  /\ quota.requests[r].pc = "idle"
  /\ \E user \in BOOLEAN :
       quota' = [quota EXCEPT !.requests[r].pc = "quota", !.requests[r].user = user]
  /\ UNCHANGED <<pc, config, i, attempt, successfulCookies, successAccount, cookieFile,
                 backups, now, runs, exitCode, outcome, attempts, last, saveCalled,
                 prior, history, persisted, failures, observed, browser, accountsJson,
                 harvest, verdict, conversions, pages, context, current, shots, result,
                 report, writers>>

\* quotaMiddleware: anonymous requests pass; the profile is read and compared
QuotaMiddleware(r) ==
  /\ quota.requests[r].pc = "quota"
  /\ IF ~quota.requests[r].user
       THEN quota' = [quota EXCEPT !.requests[r].pc = "convert"]
       ELSE \E error \in BOOLEAN :
              IF error THEN Respond(r, HttpServerError)
              ELSE IF quota.downloads_used >= quota.downloads_limit
                     THEN Respond(r, HttpForbidden)
                     ELSE quota' = [quota EXCEPT !.requests[r].pc = "convert"]
  /\ UNCHANGED <<pc, config, i, attempt, successfulCookies, successAccount, cookieFile,
                 backups, now, runs, exitCode, outcome, attempts, last, saveCalled,
                 prior, history, persisted, failures, observed, browser, accountsJson,
                 harvest, verdict, conversions, pages, context, current, shots, result,
                 report, writers>>

\* the handler up to step 7: a request that fails validation, the direct
\* download of a free platform (answered without the counter), the full
\* processing that ends in an upload, or an error on the way
Convert(r) ==
  /\ quota.requests[r].pc = "convert"
  /\ \E way \in {"invalid", "direct", "full", "error"} :
       CASE way = "invalid" -> Respond(r, HttpBadRequest)
         [] way = "error"   -> Respond(r, HttpServerError)
         [] way = "direct"  ->
              quota' = [quota EXCEPT !.requests[r].pc = "responded",
                                     !.requests[r].path = "direct",
                                     !.requests[r].status = HttpOk]
         [] way = "full"    ->
              IF quota.requests[r].user
                THEN quota' = [quota EXCEPT !.requests[r].pc = "increment",
                                            !.requests[r].path = "full"]
                ELSE quota' = [quota EXCEPT !.requests[r].pc = "responded",
                                            !.requests[r].path = "full",
                                            !.requests[r].status = HttpOk]
  /\ UNCHANGED <<pc, config, i, attempt, successfulCookies, successAccount, cookieFile,
                 backups, now, runs, exitCode, outcome, attempts, last, saveCalled,
                 prior, history, persisted, failures, observed, browser, accountsJson,
                 harvest, verdict, conversions, pages, context, current, shots, result,
                 report, writers>>

\* incrementDownloadCounter, first await: the select of downloads_used; on an
\* error it returns and the handler answers with success all the same
IncrementFetch(r) ==
  /\ quota.requests[r].pc = "increment"
  /\ \E fetchError \in BOOLEAN :
       IF fetchError
         THEN quota' = [quota EXCEPT !.requests[r].pc = "responded",
                                     !.requests[r].counter = "fetchError",
                                     !.requests[r].status = HttpOk]
         ELSE quota' = [quota EXCEPT !.requests[r].pc = "update",
                                     !.requests[r].read = quota.downloads_used]
  /\ UNCHANGED <<pc, config, i, attempt, successfulCookies, successAccount, cookieFile,
                 backups, now, runs, exitCode, outcome, attempts, last, saveCalled,
                 prior, history, persisted, failures, observed, browser, accountsJson,
                 harvest, verdict, conversions, pages, context, current, shots, result,
                 report, writers>>

\* the value the update statement carries: one more than the value read
WrittenValue(r) == quota.requests[r].read + 1

\* incrementDownloadCounter, second await: the update, and the answer of step 8
IncrementUpdate(r) ==
  /\ quota.requests[r].pc = "update"
  /\ \E updateError \in BOOLEAN :
       IF updateError
         THEN quota' = [quota EXCEPT !.requests[r].pc = "responded",
                                     !.requests[r].counter = "updateError",
                                     !.requests[r].status = HttpOk]
         ELSE quota' = [quota EXCEPT !.downloads_used = WrittenValue(r),
                                     !.requests[r].pc = "responded",
                                     !.requests[r].counter = "written",
                                     !.requests[r].status = HttpOk]
  /\ UNCHANGED <<pc, config, i, attempt, successfulCookies, successAccount, cookieFile,
                 backups, now, runs, exitCode, outcome, attempts, last, saveCalled,
                 prior, history, persisted, failures, observed, browser, accountsJson,
                 harvest, verdict, conversions, pages, context, current, shots, result,
                 report, writers>>

NextQuota ==
  \/ \E r \in Requests : Arrive(r)
  \/ \E r \in Requests : QuotaMiddleware(r)
  \/ \E r \in Requests : Convert(r)
  \/ \E r \in Requests : IncrementFetch(r)
  \/ \E r \in Requests : IncrementUpdate(r)

SpecQuota == InitQuota /\ [][NextQuota]_vars

TypeOK ==
  /\ pc \in {"idle", "attempt", "backoff", "exhausted", "save", "prune", "write",
             "writing", "saved"}
  /\ runs \in 0..MaxPersists
  /\ now = Epoch + runs
  /\ exitCode \in {-1, 0, 1}
  /\ browser \in {"none", "launched", "closed"}

----------------------------------------------------------------------------
(* Properties of the retry and failover loops *)

Pool == config.accounts
Max == MaxRetriesPerAccount(config)
Running == pc # "idle" /\ ~config.isNull
FailedAttempt == last.class \in {"retryable", "terminal"}

\* every account of the pool has used up its attempts and none succeeded
AllAbandoned ==
  /\ ~config.isNull
  /\ \A k \in 1..Len(Pool) : attempts[Pool[k].email] = Max
  /\ FailedAttempt

\* C1: whenever saveCookies has been called in a run, its argument is a cookie
\* set that passes validateCookies, and a completely written cookies.json
\* holds a set that passes validateCookies.
C1_OnlyValidatedPersisted ==
  /\ (saveCalled \/ pc \in {"save", "prune", "write", "writing", "saved"})
       => /\ ~successfulCookies.isNull
          /\ ValidateCookies(successfulCookies.items)
  /\ (cookieFile.exists /\ cookieFile.whole)
       => /\ ~JSONParse(cookieFile).isNull
          /\ ValidateCookies(JSONParse(cookieFile).items)

C1_Witness ==
  /\ pc = "saved"
  /\ saveCalled
  /\ cookieFile = JSONStringify(successfulCookies)
  /\ cookieFile # prior.file
  /\ Len(successfulCookies.items) > Len(ESSENTIAL_COOKIES)

\* C2: once an attempt of a run has returned a cookie set, no step of that run
\* makes another attempt or goes back into the loops: the attempt counters and
\* the record of the last attempt stay as they are.
C2_HaltOnSuccess ==
  [][(last.class = "success" /\ runs' = runs)
       => /\ attempts' = attempts
          /\ last' = last
          /\ pc' \notin {"attempt", "backoff", "exhausted"}]_vars

C2_Witness ==
  /\ last.class = "success"
  /\ pc = "idle"
  /\ outcome = "success"
  /\ last.account = Pool[1].email
  /\ Len(Pool) > 1
  /\ last.attempt < Max
  /\ \A k \in 2..Len(Pool) : attempts[Pool[k].email] = 0

C4_BoundedRetries ==
  Running =>
    /\ \A k \in 1..Len(Pool) : attempts[Pool[k].email] <= Max
    /\ last.class = "retryable" =>
         IF last.attempt < Max
           THEN /\ Pool[i].email = last.account
                /\ \/ pc = "backoff" /\ attempt = last.attempt
                   \/ pc = "attempt" /\ attempt = last.attempt + 1
           ELSE \/ /\ pc = "attempt" /\ attempt = 1
                   /\ i > 1 /\ Pool[i - 1].email = last.account
                \/ /\ pc = "exhausted"
                   /\ Pool[Len(Pool)].email = last.account

C4_Witness ==
  /\ pc = "attempt"
  /\ last.class = "retryable"
  /\ last.attempt = Max
  /\ Max > 1
  /\ i = 2
  /\ attempt = 1
  /\ attempts[Pool[1].email] = Max

C6_ExhaustedIsFailure ==
  AllAbandoned =>
    /\ pc \in {"exhausted", "idle"}
    /\ pc = "idle" => (outcome = "exhausted" /\ exitCode = 1)
    /\ ~saveCalled
    /\ successfulCookies = Null

C6_Witness ==
  /\ AllAbandoned
  /\ pc = "idle"
  /\ outcome = "exhausted"
  /\ exitCode = 1
  /\ Len(Pool) > 1

\* C7: when every account of the pool has been abandoned without a success,
\* cookies.json and the set of backup files are what they were when the run
\* started.
C7_ExhaustedLeavesStore ==
  AllAbandoned =>
    /\ cookieFile = prior.file
    /\ backups = prior.backups

C7_Witness ==
  /\ AllAbandoned
  /\ pc = "idle"
  /\ outcome = "exhausted"
  /\ prior.file.exists
  /\ cookieFile = prior.file

----------------------------------------------------------------------------
(* Properties of saveCookies *)

\* C8: in every state in which cookies.json no longer holds the existing
\* content it had when the run started, a backup file holds that content:
\* the copy is complete before the file is opened for writing, and the
\* pruning of the backups never removes it.
C8_BackupBeforeOverwrite ==
  (prior.file.exists /\ cookieFile # prior.file)
    => \E b \in backups : b.data = prior.file /\ b.ts = now

C8_Witness ==
  /\ pc = "writing"
  /\ prior.file.exists
  /\ cookieFile = Truncated
  /\ persisted >= KeepBackups
  /\ Cardinality(backups) = KeepBackups
  /\ Cardinality(prior.backups) = KeepBackups

\* the contents of the backups, oldest backup first
RECURSIVE OldestFirst(_)
OldestFirst(bs) ==
  IF bs = {} THEN <<>>
  ELSE LET old == CHOOSE b \in bs : \A c \in bs : b.ts <= c.ts
       IN  <<old.data>> \o OldestFirst(bs \ {old})

\* the contents cookies.json held before its current content, oldest first,
\* with the content that is backed up and about to be replaced
PriorContents ==
  IF pc = "write" /\ cookieFile.exists THEN Append(history, cookieFile) ELSE history

LastN(seq, n) ==
  IF Len(seq) <= n THEN seq ELSE SubSeq(seq, Len(seq) - n + 1, Len(seq))

\* C9: once saveCookies is past its pruning there are at most 5 backups; after
\* 6 or more persists there are exactly 5; and as long as no saveCookies call
\* failed, the backups hold, in order, the most recent contents cookies.json
\* held before its current one, so the oldest are the ones evicted.
C9_BackupRetention ==
  /\ (pc \in {"write", "writing", "saved"} \/ (pc = "idle" /\ outcome = "success"))
       => Cardinality(backups) <= KeepBackups
  /\ (persisted >= KeepBackups + 1 /\ pc = "idle" /\ outcome = "success")
       => Cardinality(backups) = KeepBackups
  /\ (failures = 0 /\ pc # "prune")
       => OldestFirst(backups) = LastN(PriorContents, KeepBackups)

C9_Witness ==
  /\ pc = "idle"
  /\ outcome = "success"
  /\ failures = 0
  /\ persisted >= KeepBackups + 1
  /\ Len(history) > KeepBackups
  /\ Cardinality(backups) = KeepBackups
  /\ OldestFirst(backups) = LastN(history, KeepBackups)

\* C10: whatever a reader of cookies.json reads, at any moment, is the complete
\* content the file had when the run started or the complete new content.
C10_AtomicWrite ==
  observed.read =>
    \/ observed.file = prior.file
    \/ observed.file = JSONStringify(successfulCookies)

----------------------------------------------------------------------------
(* Properties of the failure paths *)

\* C11: when a run has ended because a file system call of saveCookies threw,
\* its exit status is 1, no success was reported, and a cookies.json that
\* existed when the run started still holds the content it had then.
C11_SaveFailureKeepsSession ==
  (pc = "idle" /\ outcome = "fatal" /\ saveCalled)
    => /\ exitCode = 1
       /\ persisted = 0
       /\ prior.file.exists => cookieFile = prior.file

\* the contents of config/accounts.json with which no account can be tried
InvalidConfig(raw) ==
  \/ ~raw.exists
  \/ ~raw.parses
  \/ Len(raw.accounts) = 0
  \/ \A k \in 1..Len(raw.accounts) : raw.accounts[k].enabled = FALSE

\* C12: a run that found config/accounts.json missing, malformed, without
\* accounts or without an enabled account has loaded no configuration and has
\* ended with exit status 1; it launched no browser, made no login attempt,
\* did not call saveCookies, and left cookies.json and the backups as they were.
C12_InvalidConfigStopsRun ==
  (runs > 0 /\ InvalidConfig(accountsJson))
    => /\ config.isNull
       /\ pc = "idle"
       /\ exitCode = 1
       /\ outcome = "configInvalid"
       /\ browser = "none"
       /\ \A k \in 1..MaxAccounts : attempts[k] = 0
       /\ last = NoAttempt
       /\ ~saveCalled
       /\ cookieFile = prior.file
       /\ backups = prior.backups

C12_Witness ==
  /\ runs > 0
  /\ accountsJson.exists
  /\ accountsJson.parses
  /\ Len(accountsJson.accounts) > 1
  /\ \A k \in 1..Len(accountsJson.accounts) : accountsJson.accounts[k].enabled = FALSE
  /\ exitCode = 1
  /\ outcome = "configInvalid"
  /\ prior.file.exists

----------------------------------------------------------------------------
(* Properties of the account pool *)

\* the accounts of config/accounts.json that are not disabled
NotDisabled == {acc \in Range(accountsJson.accounts) : acc.enabled # FALSE}

\* C13: in a run, no attemptLogin call is made for an account that
\* config/accounts.json lists with enabled = false, and the accounts the loops
\* go through are exactly the listed accounts that are not disabled.
C13_DisabledNeverAttempted ==
  runs > 0 =>
    /\ \A acc \in Range(accountsJson.accounts) :
         acc.enabled = FALSE => attempts[acc.email] = 0
    /\ last.class # "none" => last.account \in {acc.email : acc \in NotDisabled}
    /\ ~config.isNull =>
         /\ Range(Pool) = NotDisabled
         /\ Len(Pool) = Cardinality(NotDisabled)

C13_Witness ==
  /\ pc = "idle"
  /\ outcome = "exhausted"
  /\ Len(accountsJson.accounts) = 2
  /\ accountsJson.accounts[1].enabled = FALSE
  /\ accountsJson.accounts[2].enabled = TRUE
  /\ attempts[accountsJson.accounts[1].email] = 0
  /\ attempts[accountsJson.accounts[2].email] = Max

\* the place of an account in the accounts array of config/accounts.json
PlaceOf(email) ==
  CHOOSE k \in 1..Len(accountsJson.accounts) : accountsJson.accounts[k].email = email

\* C14: within a run the attemptLogin calls follow the order of the accounts
\* in config/accounts.json: a call is never for an account placed before the
\* account of the call before it, once an account has been attempted no
\* account placed before it is attempted again, and the index of the outer
\* loop never decreases.
C14_ConfigurationOrder ==
  [][(runs' = runs /\ ~config.isNull)
       => /\ i' >= i
          /\ (attempts' # attempts /\ last.class # "none")
               => PlaceOf(last'.account) >= PlaceOf(last.account)
          /\ \A a, b \in Range(Pool) :
               (PlaceOf(a.email) < PlaceOf(b.email) /\ attempts[b.email] > 0)
                 => attempts'[a.email] = attempts[a.email]]_vars

C14_Witness ==
  /\ pc = "backoff"
  /\ Len(Pool) = 2
  /\ i = 2
  /\ last.account = Pool[2].email
  /\ attempts[Pool[1].email] = Max
  /\ attempts[Pool[2].email] = 1
  /\ Max > 1

\* C15: when an attempt of a run has returned a cookie set, the account of
\* that attempt is the first account of the pool with a successful attempt
\* and is recorded as successAccount: every account before it was attempted
\* maxRetriesPerAccount times and left, the successful attempt is the last
\* one made on its own account, no account after it was attempted, the loops
\* have been left for saveCookies, and the run ends with exit status 0 and
\* its success report unless saveCookies throws.
C15_FirstSuccessWins ==
  (~config.isNull /\ last.class = "success") =>
    /\ Pool[i].email = last.account
    /\ successAccount = last.account
    /\ \A j \in 1..(i - 1) : attempts[Pool[j].email] = Max
    /\ attempts[Pool[i].email] = last.attempt
    /\ \A j \in (i + 1)..Len(Pool) : attempts[Pool[j].email] = 0
    /\ pc \in {"save", "prune", "write", "writing", "saved", "idle"}
    /\ pc = "idle" =>
         \/ outcome = "success" /\ exitCode = 0 /\ failures = 0
         \/ outcome = "fatal" /\ exitCode = 1 /\ failures > 0

C15_Witness ==
  /\ pc = "idle"
  /\ outcome = "success"
  /\ exitCode = 0
  /\ Len(Pool) = 2
  /\ Max > 1
  /\ last.class = "success"
  /\ successAccount = Pool[2].email
  /\ attempts[Pool[1].email] = Max
  /\ attempts[Pool[2].email] = 1
  /\ cookieFile = JSONStringify(successfulCookies)

----------------------------------------------------------------------------
(* Properties of validateCookies and convertCookies *)

\* C16: an attempt whose cookies validateCookies rejected is a failed attempt
\* like a timeout: it is counted as one attempt of its account, and after it
\* on attempt k < maxRetriesPerAccount the loop is on its way to attempt k + 1
\* of the same account, after it on attempt k = maxRetriesPerAccount to the
\* next account or the end of the pool.  As long as it is the last attempt of
\* the run, no cookie set has been accepted, saveCookies has not been called
\* and cookies.json and the backups are what they were when the run started.
C16_ValidationFailureRetried ==
  (~config.isNull /\ last.validationFailed) =>
    /\ last.class = "retryable"
    /\ attempts[last.account] = last.attempt
    /\ successfulCookies = Null
    /\ successAccount = 0
    /\ ~saveCalled
    /\ cookieFile = prior.file
    /\ backups = prior.backups
    /\ pc \in {"backoff", "attempt", "exhausted", "idle"}
    /\ pc = "idle" => outcome = "exhausted"
    /\ pc # "idle" =>
         IF last.attempt < Max
           THEN /\ Pool[i].email = last.account
                /\ \/ pc = "backoff" /\ attempt = last.attempt
                   \/ pc = "attempt" /\ attempt = last.attempt + 1
           ELSE \/ /\ pc = "attempt" /\ attempt = 1
                   /\ i > 1 /\ Pool[i - 1].email = last.account
                \/ /\ pc = "exhausted"
                   /\ Pool[Len(Pool)].email = last.account

C16_Witness ==
  /\ last.validationFailed
  /\ pc = "attempt"
  /\ attempt = 2
  /\ last.attempt = 1
  /\ Pool[i].email = last.account
  /\ attempts[last.account] = 1
  /\ prior.file.exists

\* a required name that no cookie of harvest has
LacksRequired ==
  \E n \in Range(ESSENTIAL_COOKIES) : \A k \in 1..Len(harvest) : harvest[k].name # n

\* a cookie of harvest with a required name and an empty value
HoldsEmptyRequired ==
  \E k \in 1..Len(harvest) :
    harvest[k].name \in Range(ESSENTIAL_COOKIES) /\ harvest[k].value = ""

\* C17: validateCookies returns false for a cookie array that lacks one of
\* SID, HSID, SSID, APISID, SAPISID, LOGIN_INFO or has a cookie of one of these
\* names with an empty value, and true for every other array: all six names
\* are there, every cookie of these names has a value, and the cookies of
\* other names are whatever they are.
C17_ValidateCookies ==
  verdict.done =>
    /\ (LacksRequired \/ HoldsEmptyRequired) => ~verdict.ok
    /\ (~LacksRequired /\ ~HoldsEmptyRequired) => verdict.ok

C17_Witness ==
  /\ verdict.done
  /\ verdict.ok
  /\ Len(harvest) > Len(ESSENTIAL_COOKIES)
  /\ harvest[Len(harvest)].name \notin Range(ESSENTIAL_COOKIES)
  /\ harvest[Len(harvest)].value = ""

\* C18: every record convertCookies returns has the domain, the name and the
\* value of the cookie it was made from, and its hostOnly is true exactly
\* when that domain does not start with a dot.
C18_HostOnly ==
  \A c \in 1..Len(conversions) :
    /\ Len(conversions[c].cookies) = Len(harvest)
    /\ \A k \in 1..Len(harvest) :
         LET rec == conversions[c].cookies[k]
         IN  /\ rec.hostOnly <=> ~StartsWithDot(harvest[k].domain)
             /\ rec.domain = harvest[k].domain
             /\ rec.name = harvest[k].name
             /\ rec.value = harvest[k].value

C18_Witness ==
  /\ Len(conversions) > 0
  /\ \E k \in 1..Len(harvest) :
       harvest[k].domain = ".google.com" /\ ~conversions[1].cookies[k].hostOnly
  /\ \E k \in 1..Len(harvest) :
       harvest[k].domain = "www.youtube.com" /\ conversions[1].cookies[k].hostOnly

\* C19 as claimed: all convertCookies calls on the same cookie array return
\* the same records, whatever the clock is at the call.
C19_Deterministic ==
  \A a, b \in 1..Len(conversions) : conversions[a].cookies = conversions[b].cookies

\* a record without its expiry
SansExpiry(rec) == [rec EXCEPT !.expirationDate = 0]

\* C19 as amended: two convertCookies calls on the same cookie array return
\* records that are the same in every property but expirationDate; for a
\* cookie with expires > 0 expirationDate is that expiry in both, for every
\* other cookie it is the clock of the call plus 365 days.
C19_DeterministicButDefaultExpiry ==
  \A a, b \in 1..Len(conversions) :
    /\ Len(conversions[a].cookies) = Len(conversions[b].cookies)
    /\ \A k \in 1..Len(harvest) :
         LET ra == conversions[a].cookies[k]
             rb == conversions[b].cookies[k]
         IN  /\ SansExpiry(ra) = SansExpiry(rb)
             /\ IF harvest[k].expires > 0
                  THEN /\ ra.expirationDate = harvest[k].expires
                       /\ rb.expirationDate = harvest[k].expires
                  ELSE /\ ra.expirationDate = conversions[a].at + YearSeconds
                       /\ rb.expirationDate = conversions[b].at + YearSeconds

C19_Witness ==
  /\ Len(conversions) = 2
  /\ conversions[1].at < conversions[2].at
  /\ \E k \in 1..Len(harvest) : harvest[k].expires > 0
  /\ \E k \in 1..Len(harvest) :
       /\ harvest[k].expires = -1
       /\ conversions[1].cookies[k].expirationDate
            # conversions[2].cookies[k].expirationDate
  /\ \E k \in 1..Len(harvest) : harvest[k].expires = 0

\* the keys of one object of the text of cookies.json, in the order of the text
KeysWritten(members) == [j \in 1..Len(members) |-> members[j].key]

\* C20: when saveCookies has written cookies.json, parsing the file gives the
\* array saveCookies was given, which is what convertCookies made of the
\* filtered cookies of the successful attempt: as many records in the same
\* order, each with the same eleven properties and values, the properties
\* written in the order convertCookies sets them.
C20_RoundTrip ==
  (pc = "saved" \/ (pc = "idle" /\ outcome = "success")) =>
    /\ JSONParse(cookieFile) = successfulCookies
    /\ JSONParse(cookieFile).items = ConvertCookies(FilterCookies(harvest), now)
    /\ \A k \in 1..Len(cookieFile.data.items) :
         /\ KeysWritten(cookieFile.data.items[k]) = FieldOrder
         /\ DOMAIN JSONParse(cookieFile).items[k] = Range(FieldOrder)

C20_Witness ==
  /\ pc = "idle"
  /\ outcome = "success"
  /\ prior.file.exists
  /\ cookieFile # prior.file
  /\ Len(harvest) > Len(JSONParse(cookieFile).items)
  /\ Len(JSONParse(cookieFile).items) = Len(ESSENTIAL_COOKIES)
  /\ \E k \in 1..Len(successfulCookies.items) :
       /\ successfulCookies.items[k].session
       /\ JSONParse(cookieFile).items[k].expirationDate = now + YearSeconds
       /\ JSONParse(cookieFile).items[k].sameSite = "unspecified"

----------------------------------------------------------------------------
\* C21: the cookies an attempt harvests were all set during that attempt: no
\* cookie of an earlier attempt, of the same or of another account, is among
\* the cookies of the context the attempt reads with page.cookies().
C21_IsolatedContext ==
  (pc = "closing" /\ current.harvested) =>
    \A k \in 1..Len(context) : context[k].by = "thisAttempt"

\* the call stopped on a timeout: page.goto or the wait for the email field
\* threw, or the wait for the password field timed out
TimedOut == current.kind \in {"exception", "noPasswordField"}

\* C22: an attempt that a timeout of a navigation or of a selector wait has
\* stopped, and whose page has been closed, is counted against the budget of
\* its account and ends as a failed attempt: the run is not ended by it, and
\* the account is tried again unless the attempt was its last one.
C22_TimeoutRetried ==
  [][(pc = "closing" /\ TimedOut /\ pages' = pages - 1) =>
       LET email == config.accounts[i].email
       IN  /\ attempts'[email] = attempts[email] + 1
           /\ last'.class # "crash"
           /\ outcome' = outcome
           /\ successfulCookies' = successfulCookies
           /\ IF attempt < MaxRetriesPerAccount(config)
                THEN pc' = "backoff" /\ i' = i /\ attempt' = attempt
                ELSE IF i < Len(config.accounts)
                  THEN pc' = "attempt" /\ i' = i + 1 /\ attempt' = 1
                  ELSE pc' = "exhausted"]_vars

C22_Witness ==
  /\ pc = "backoff"
  /\ TimedOut
  /\ current.kind = "exception"
  /\ pages = 0
  /\ attempts[last.account] = 1
  /\ last.class # "crash"

\* C23: no failure of an attempt ends the run: a run that has ended as a fatal
\* error did not end on an attempt (a page that could not be opened or closed,
\* an exception of a step); such an attempt is a failed attempt like another.
C23_FailuresContained == ~(outcome = "fatal" /\ last.class = "crash")

\* the call ended on an exception or on a terminal condition
EndedOnFailure ==
  \/ current.kind = "exception"
  \/ current.condition \in {"detection", "accountNotFound", "verification",
                            "twoFactor", "wrongPassword"}

\* C24: an attempt that ends on an exception or on a terminal condition has
\* asked for a screenshot before it returns, under a name that holds both the
\* account and the number of the attempt.
C24_ScreenshotKeyed ==
  (pc = "closing" /\ EndedOnFailure) =>
    \E k \in 1..Len(shots) :
      /\ shots[k].account = config.accounts[i].email
      /\ shots[k].attempt = attempt

\* C25: an attempt whose screenshot cannot be taken or whose log line cannot
\* be appended returns what it returns with working diagnostics, and is
\* classed the same by the loops.
C25_DiagnosticsBestEffort ==
  (pc = "closing" /\ current.sink # "ok") =>
    /\ result = current.undisturbed
    /\ ~result.threw
    /\ current.class # "crash"

C25_Witness ==
  /\ pc = "closing"
  /\ current.sink = "screenshotFails"
  /\ current.kind = "exception"
  /\ Len(shots) = 1
  /\ ~shots[1].saved
  /\ result = [threw |-> FALSE, cookies |-> Null]

\* C26: at most one page is open, and none between two attempts: when the
\* loops are about to call attemptLogin, wait before a retry, save or report,
\* the page of the attempt before is closed.
C26_Sequential ==
  /\ pages <= 1
  /\ pc \in {"attempt", "backoff", "save", "exhausted"} => pages = 0
  /\ pages = 1 => pc \in {"page", "closing"} \/ (outcome = "fatal" /\ last.class = "crash")

C26_Witness ==
  /\ pc = "page"
  /\ pages = 1
  /\ attempt = 2
  /\ attempts[config.accounts[i].email] = 1

\* the runs that are between the start and the end of their saveCookies call
Saving == {w \in Runners : writers[w].pc \in {"save", "list", "unlink", "open", "write"}}

\* C27: at most one run is inside saveCookies at a time, and when none is,
\* cookies.json holds the whole text that one run wrote and there are at most
\* five backups.
C27_SingleWriter ==
  /\ Cardinality(Saving) <= 1
  /\ Saving = {} => (cookieFile.whole /\ Cardinality(backups) <= KeepBackups)

\* C28 as stated: a run that succeeds on a store that an earlier run has
\* written leaves the backup set as that run left it.
C28_Idempotent ==
  (pc = "idle" /\ outcome = "success" /\ prior.file.exists) =>
    backups = prior.backups

\* C28: a run that succeeds on a store that holds a session file is not
\* without effect on it: the backup set gains a backup, under a new name, that
\* holds the file as the run found it, it has five backups at most or one more
\* than before, and the session file is the text of the cookies of this run.
C28_SecondRunAddsBackup ==
  (pc = "idle" /\ outcome = "success" /\ prior.file.exists) =>
    /\ \E b \in backups : b.data = prior.file /\ b.ts \notin BackupNames(prior.backups)
    /\ backups # prior.backups
    /\ Cardinality(backups) = IF Cardinality(prior.backups) + 1 < KeepBackups
                                THEN Cardinality(prior.backups) + 1 ELSE KeepBackups
    /\ cookieFile = JSONStringify(successfulCookies)

C28_Witness ==
  /\ pc = "idle"
  /\ outcome = "success"
  /\ runs = 2
  /\ persisted = 2
  /\ prior.file.exists
  /\ prior.file.whole
  /\ Cardinality(backups) = Cardinality(prior.backups) + 1

\* C29: when a run has ended with success, the account of its report is the
\* account of the attempt that succeeded, whose cookies are the ones in
\* cookies.json, and the count of its report is the number of records there.
C29_ReportMatchesStore ==
  (pc = "idle" /\ outcome = "success") =>
    /\ last.class = "success"
    /\ report.account = last.account
    /\ cookieFile = JSONStringify(successfulCookies)
    /\ report.count = Len(JSONParse(cookieFile).items)

C29_Witness ==
  /\ pc = "idle"
  /\ outcome = "success"
  /\ report.account = 2
  /\ attempts[1] > 0
  /\ report.count = Len(ESSENTIAL_COOKIES) + 1

\* the call went past the password and the 2-step and wrong-password tests,
\* and the probe on youtube.com found neither avatar nor account menu
ProbeFoundNothing ==
  /\ pc = "closing"
  /\ current.kind = "passwordSubmitted"
  /\ current.condition = "none"
  /\ ~current.loggedIn

\* C30: an attempt whose logged-in probe finds nothing still reads the
\* cookies of the page and validates them: it returns cookies if and only if
\* validateCookies accepts the filtered cookies, and then all of them,
\* converted.
C30_ProbeIsAdvisory ==
  ProbeFoundNothing =>
    LET filteredCookies == FilterCookies(PageCookies(context))
    IN  /\ current.harvested
        /\ ~result.threw
        /\ Truthy(result.cookies) <=> ValidateCookies(filteredCookies)
        /\ Truthy(result.cookies) =>
             result.cookies.items = ConvertCookies(filteredCookies, now)

C30_Witness ==
  /\ ProbeFoundNothing
  /\ Truthy(result.cookies)
  /\ Len(result.cookies.items) = Len(ESSENTIAL_COOKIES)
  /\ \E k \in 1..Len(shots) : shots[k].label = "login_failed"

\* the wait for the password field timed out and the page has been classified
NoPasswordField == pc = "closing" /\ current.kind = "noPasswordField"

\* C31: when the password field never appears, the page decides the condition
\* the attempt ends on, with a fixed precedence: a CAPTCHA or unusual-activity
\* page is a detection whatever else it shows, otherwise an account-not-found
\* page is a credential error, otherwise a verify-your-identity page is a
\* verification, otherwise the condition is unknown and retryable; the
\* condition is a function of the page content alone.
C31_Precedence ==
  NoPasswordField =>
    LET content == current.content
        detection == "captcha" \in content
        notFound == "notFound" \in content
        verify == "verifyIdentity" \in content \/ "verifyIt" \in content
    IN  /\ detection => current.condition = "detection"
        /\ (~detection /\ notFound) => current.condition = "accountNotFound"
        /\ (~detection /\ ~notFound /\ verify) => current.condition = "verification"
        /\ (~detection /\ ~notFound /\ ~verify) => current.condition = "unknown"
        /\ current.class = IF current.condition = "unknown" THEN "retryable" ELSE "terminal"
        /\ result = [threw |-> FALSE, cookies |-> Null]

C31_Witness ==
  /\ NoPasswordField
  /\ current.content = {"captcha", "notFound"}
  /\ current.condition = "detection"
  /\ Len(shots) = 1
  /\ shots[1].label = "no_password_field"

\* the password was submitted and the page shows a 2-step or verification
\* prompt or a wrong-password banner
PromptAfterSubmit ==
  /\ pc = "closing"
  /\ current.kind = "passwordSubmitted"
  /\ \/ current.content \cap {"twoStep", "verifyIt", "confirmIdentity"} # {}
     \/ "wrongPassword" \in current.content

\* C32: an attempt that meets a 2-step or verification prompt or a
\* wrong-password banner after it has submitted the password ends there as a
\* terminal failure: it does not go on to youtube.com, reads and validates no
\* cookies and returns none, whatever cookies the browser holds.
C32_NoHarvestAfterPrompt ==
  PromptAfterSubmit =>
    /\ ~current.harvested
    /\ ~current.validationFailed
    /\ result = [threw |-> FALSE, cookies |-> Null]
    /\ current.class = "terminal"
    /\ \A k \in 1..Len(shots) : shots[k].label \notin {"login_failed", "invalid_cookies"}

C32_Witness ==
  /\ PromptAfterSubmit
  /\ current.condition = "wrongPassword"
  /\ ValidateCookies(FilterCookies(PageCookies(context)))
  /\ result.cookies = Null

\* the domains of the YouTube and Google families
OnRelevantDomain(cookie) ==
  cookie.domain \in {".youtube.com", "www.youtube.com", ".google.com", "accounts.google.com"}

\* C33: an attempt that reads the cookies of the page and finds none on a
\* YouTube or Google domain returns no cookies and is a retryable failure; an
\* attempt that returns cookies returns at least one, and each of them is on
\* a YouTube or Google domain.
C33_RelevantCookiesOnly ==
  /\ (pc = "closing" /\ current.harvested
        /\ \A k \in 1..Len(context) : ~OnRelevantDomain(context[k].cookie)) =>
       /\ result = [threw |-> FALSE, cookies |-> Null]
       /\ current.class = "retryable"
  /\ (pc = "closing" /\ Truthy(result.cookies)) =>
       /\ Len(result.cookies.items) > 0
       /\ \A k \in 1..Len(result.cookies.items) : OnRelevantDomain(result.cookies.items[k])
  /\ (pc = "save" /\ last.class = "success") =>
       /\ Len(successfulCookies.items) > 0
       /\ \A k \in 1..Len(successfulCookies.items) :
            OnRelevantDomain(successfulCookies.items[k])

C33_Witness ==
  /\ pc = "backoff"
  /\ current.harvested
  /\ Len(context) = 1
  /\ ~OnRelevantDomain(context[1].cookie)
  /\ last.class = "retryable"
  /\ last.validationFailed
  /\ attempts[last.account] = 1

\* C34: every record convertCookies returns has the expiry of its cookie when
\* that is a time (expires > 0) and the clock of the call plus 365 days
\* otherwise, so that expirationDate is positive; it has sameSite
\* "unspecified" when the cookie has no sameSite and the cookie's otherwise;
\* and its storeId is "0".
C34_Defaults ==
  \A c \in 1..Len(conversions) :
    \A k \in 1..Len(harvest) :
      LET raw == harvest[k]
          rec == conversions[c].cookies[k]
      IN  /\ raw.expires > 0 => rec.expirationDate = raw.expires
          /\ raw.expires <= 0 => rec.expirationDate = conversions[c].at + YearSeconds
          /\ rec.expirationDate > 0
          /\ raw.sameSite = Undefined => rec.sameSite = "unspecified"
          /\ raw.sameSite # Undefined => rec.sameSite = raw.sameSite
          /\ rec.storeId = "0"

C34_Witness ==
  /\ Len(conversions) > 0
  /\ \E k \in 1..Len(harvest) :
       /\ harvest[k].expires = -1
       /\ harvest[k].sameSite = "Lax"
       /\ conversions[1].cookies[k].sameSite = "Lax"
       /\ conversions[1].cookies[k].expirationDate = conversions[1].at + YearSeconds
  /\ \E k \in 1..Len(harvest) :
       /\ harvest[k].expires = Epoch + 100
       /\ harvest[k].sameSite = Undefined
       /\ conversions[1].cookies[k].sameSite = "unspecified"
       /\ conversions[1].cookies[k].expirationDate = Epoch + 100

\* the attemptLogin calls of the run so far
RECURSIVE CallsUpTo(_)
CallsUpTo(n) == IF n = 0 THEN 0 ELSE attempts[n] + CallsUpTo(n - 1)

\* the loops have been left with a cookie set, or the run has ended as
\* exhausted or with a fatal error
Ended ==
  \/ pc = "save" /\ ~successfulCookies.isNull
  \/ pc = "idle" /\ outcome \in {"exhausted", "fatal", "configInvalid"}

\* C35: a run that is started ends, as succeeded, exhausted or fatal; it makes
\* at most (enabled accounts x maxRetriesPerAccount) attemptLogin calls; and
\* when it reports exhausted, every enabled account has been attempted.
C35_Terminates ==
  /\ [](~config.isNull => CallsUpTo(MaxAccounts) <= Len(Pool) * Max)
  /\ []((pc = "exhausted" \/ outcome = "exhausted")
           => \A k \in 1..Len(Pool) : attempts[Pool[k].email] >= 1)
  /\ <>Ended

C35_Witness ==
  /\ Ended
  /\ outcome = "exhausted"
  /\ Len(Pool) = MaxAccounts
  /\ Max = DefaultMaxRetries
  /\ CallsUpTo(MaxAccounts) = MaxAccounts * DefaultMaxRetries

\* rotation.maxRetries of config/accounts.json, or the default when it is absent
Budget ==
  IF accountsJson.maxRetries = NoValue THEN DefaultMaxRetries ELSE accountsJson.maxRetries

\* C36: the number of attempts an account gets is rotation.maxRetries of the
\* configuration file, and 3 when that is absent: no account is attempted more
\* often, and an account that the loops have left behind without a success
\* has been attempted exactly that often.
C36_RetryBudget ==
  ~config.isNull =>
    /\ Max = Budget
    /\ \A k \in 1..Len(Pool) :
         /\ attempts[Pool[k].email] <= Budget
         /\ (k < i \/ pc = "exhausted" \/ outcome = "exhausted")
              => attempts[Pool[k].email] = Budget

C36_Witness ==
  /\ pc = "attempt"
  /\ accountsJson.maxRetries = NoValue
  /\ i = 2
  /\ attempt = 1
  /\ attempts[Pool[1].email] = DefaultMaxRetries
  /\ attempts[Pool[2].email] = 0

\* C37: the loops wait exactly between two attempts on one account. After an
\* attemptLogin call that returned, the wait comes next if and only if the
\* call failed and was not the last one of its account; the wait is followed
\* by the next attempt on the same account; and an attempt that follows
\* another without a wait is the first attempt of the next account.
C37_BackoffBetweenRetries ==
  [][/\ (attempts' # attempts /\ last'.class # "crash") =>
          (pc' = "backoff" <=>
             (last'.class \in {"retryable", "terminal"} /\ last'.attempt < Max))
     /\ pc = "backoff" =>
          (pc' = "attempt" /\ i' = i /\ attempt' = attempt + 1 /\ attempts' = attempts)
     /\ (pc = "attempt" /\ pc' = "attempt") => (i' = i + 1 /\ attempt' = 1)
     /\ pc' = "backoff" => pc = "attempt"]_vars

C37_Witness ==
  /\ pc = "backoff"
  /\ i = 2
  /\ attempt = 1
  /\ Max > 1
  /\ attempts[Pool[1].email] = Max
  /\ attempts[Pool[2].email] = 1
  /\ last.class \in {"retryable", "terminal"}

\* C38: the stored downloads_used of the user never exceeds the stored
\* downloads_limit, whatever the order in which the steps of concurrent
\* /convert requests of that user run; refuted: two requests pass
\* quotaMiddleware on the same profile and both are counted
C38_WithinLimit == quota.downloads_used <= quota.downloads_limit

\* C39: once every request has been answered, downloads_used has grown by the
\* number of authenticated conversions whose incrementDownloadCounter ran its
\* select and its update without an error; refuted: two calls read the same
\* value and both write that value plus one
Counted ==
  {r \in Requests : /\ quota.requests[r].user
                    /\ quota.requests[r].status = HttpOk
                    /\ quota.requests[r].counter = "written"}

C39_CountsEachOnce ==
  (\A r \in Requests : quota.requests[r].pc \in {"idle", "responded"})
    => quota.downloads_used = NoQuota.downloads_used + Cardinality(Counted)

====
